---- MODULE Spec2Model ----
(***************************************************************************)
(* The JSON-RPC connection of the ACP Go SDK (connection.go): the id       *)
(* canonicalizer, the reader loop, the inbound workers, the outbound       *)
(* request path with cancellation, and the $/cancel_request emitter.       *)
(*                                                                         *)
(* Texts (raw ids, keys) are sequences of one-character strings, so that   *)
(* the canonicalizer is computed character by character as the code does.  *)
(***************************************************************************)
EXTENDS Integers, Sequences, FiniteSets, Bags, TLC

(***************************************************************************)
(* Program constants (connection.go:87-91).                                *)
(***************************************************************************)
maxCanonicalJSONRPCIDKeyLen == 4096
maxCanonicalJSONRPCIDAbsExp10 == 4096

(***************************************************************************)
(* Text helpers.                                                           *)
(***************************************************************************)
DigitChars == <<"0", "1", "2", "3", "4", "5", "6", "7", "8", "9">>

isASCIIDigit(ch) == \E d \in 1..10 : DigitChars[d] = ch

DigitValue(ch) == (CHOOSE d \in 1..10 : DigitChars[d] = ch) - 1

\* s[from..to), 1-based, as Go's s[from-1:to-1]
Slice(s, from, to) == SubSeq(s, from, to - 1)

\* strings.Repeat(ch, n)
Repeat(ch, n) == [i \in 1..n |-> ch]

\* first index >= i that does not hold an ASCII digit (Len(s)+1 if none)
RECURSIVE SkipDigits(_, _)
SkipDigits(s, i) ==
    IF i <= Len(s) /\ isASCIIDigit(s[i]) THEN SkipDigits(s, i + 1) ELSE i

\* strings.TrimLeft(s, "0")
RECURSIVE TrimLeftZeros(_)
TrimLeftZeros(s) ==
    IF Len(s) > 0 /\ s[1] = "0" THEN TrimLeftZeros(Tail(s)) ELSE s

IsSpace(ch) == ch \in {" ", "\t", "\n", "\r"}

\* bytes.TrimSpace / strings.TrimSpace
RECURSIVE TrimSpace(_)
TrimSpace(s) ==
    IF Len(s) > 0 /\ IsSpace(s[1]) THEN TrimSpace(Tail(s))
    ELSE IF Len(s) > 0 /\ IsSpace(s[Len(s)]) THEN TrimSpace(SubSeq(s, 1, Len(s) - 1))
    ELSE s

\* decimal text of a natural number (json.Marshal of a uint64)
RECURSIVE DecimalText(_)
DecimalText(n) ==
    IF n < 10 THEN <<DigitChars[n + 1]>>
    ELSE DecimalText(n \div 10) \o <<DigitChars[(n % 10) + 1]>>

(***************************************************************************)
(* canonicalJSONRPCNumericIDKey and its helpers (connection.go:136-317).   *)
(* Errors are reported in the field err ("" = nil).                        *)
(***************************************************************************)
ErrInvalid == "invalid json-rpc numeric id"
ErrTooLarge == "json-rpc numeric id too large"

RECURSIVE parseBoundedIntFrom(_, _, _, _)
parseBoundedIntFrom(raw, i, value, max) ==
    IF i > Len(raw) THEN [err |-> "", value |-> value]
    ELSE IF ~isASCIIDigit(raw[i]) THEN [err |-> ErrInvalid, value |-> 0]
    ELSE IF value > (max - DigitValue(raw[i])) \div 10
        THEN [err |-> ErrTooLarge, value |-> 0]
    ELSE parseBoundedIntFrom(raw, i + 1, value * 10 + DigitValue(raw[i]), max)

parseBoundedInt(raw, max) ==
    IF raw = <<>> THEN [err |-> ErrInvalid, value |-> 0]
    ELSE parseBoundedIntFrom(raw, 1, 0, max)

ParseFail(e) == [err |-> e, negative |-> FALSE, digits |-> <<>>, exp10 |-> 0]

\* parseJSONRPCNumericID is one pass over raw with a cursor i.  Each operator
\* below is the function from one point of the pass on, given what the pass
\* has found so far; i is 1-based (Go's i + 1).

\* the end of the pass (connection.go:222-235)
parseNumericEnd(raw, negative, digits, fracDigits, exponent, i) ==
    IF i # Len(raw) + 1 THEN ParseFail(ErrInvalid)
    ELSE IF digits = <<>> THEN ParseFail("")
    ELSE IF Len(digits) > maxCanonicalJSONRPCIDKeyLen THEN ParseFail(ErrTooLarge)
    ELSE [err |-> "", negative |-> negative, digits |-> digits,
          exp10 |-> exponent - Len(fracDigits)]

\* the exponent digits have been scanned (connection.go:209-219)
parseNumericExponentValue(raw, negative, intDigits, fracDigits, exponentSign,
                          exponentStart, magnitude, i) ==
    IF exponentStart = i THEN ParseFail(ErrInvalid)
    ELSE IF magnitude.err # "" THEN ParseFail(magnitude.err)
    ELSE parseNumericEnd(raw, negative, TrimLeftZeros(intDigits \o fracDigits),
                         fracDigits, exponentSign * magnitude.value, i)

\* scan the exponent digits (connection.go:205-214)
parseNumericExponentDigits(raw, negative, intDigits, fracDigits, exponentSign,
                           exponentStart, i) ==
    parseNumericExponentValue(raw, negative, intDigits, fracDigits, exponentSign,
        exponentStart,
        parseBoundedInt(Slice(raw, exponentStart, i), maxCanonicalJSONRPCIDAbsExp10),
        i)

\* the optional exponent (connection.go:187-220)
parseNumericExponent(raw, negative, intDigits, fracDigits, i) ==
    IF i <= Len(raw) /\ raw[i] \in {"e", "E"} THEN
        IF i + 1 > Len(raw) THEN ParseFail(ErrInvalid)
        ELSE IF raw[i + 1] \in {"+", "-"} THEN
            IF i + 2 > Len(raw) THEN ParseFail(ErrInvalid)
            ELSE parseNumericExponentDigits(raw, negative, intDigits, fracDigits,
                     IF raw[i + 1] = "-" THEN -1 ELSE 1,
                     i + 2, SkipDigits(raw, i + 2))
        ELSE parseNumericExponentDigits(raw, negative, intDigits, fracDigits, 1,
                                        i + 1, SkipDigits(raw, i + 1))
    ELSE parseNumericEnd(raw, negative, TrimLeftZeros(intDigits \o fracDigits),
                         fracDigits, 0, i)

\* the fraction digits have been scanned (connection.go:181-184)
parseNumericFractionEnd(raw, negative, intDigits, fracStart, i) ==
    IF fracStart = i THEN ParseFail(ErrInvalid)
    ELSE parseNumericExponent(raw, negative, intDigits, Slice(raw, fracStart, i), i)

\* the optional fraction (connection.go:172-185)
parseNumericFraction(raw, negative, intStart, i) ==
    IF i <= Len(raw) /\ raw[i] = "."
    THEN parseNumericFractionEnd(raw, negative, Slice(raw, intStart, i),
                                 i + 1, SkipDigits(raw, i + 1))
    ELSE parseNumericExponent(raw, negative, Slice(raw, intStart, i), <<>>, i)

\* the integer part (connection.go:159-172)
parseNumericInteger(raw, negative, intStart) ==
    IF raw[intStart] = "0" THEN
        IF intStart + 1 <= Len(raw) /\ isASCIIDigit(raw[intStart + 1])
        THEN ParseFail(ErrInvalid)
        ELSE parseNumericFraction(raw, negative, intStart, intStart + 1)
    ELSE IF isASCIIDigit(raw[intStart])
        THEN parseNumericFraction(raw, negative, intStart, SkipDigits(raw, intStart))
    ELSE ParseFail(ErrInvalid)

\* the optional sign (connection.go:150-158); raw is not empty
parseJSONRPCNumericID(raw) ==
    IF raw[1] = "-" THEN
        IF Len(raw) < 2 THEN ParseFail(ErrInvalid)
        ELSE parseNumericInteger(raw, TRUE, 2)
    ELSE parseNumericInteger(raw, FALSE, 1)

\* formatCanonicalJSONRPCNumericID without the loop that strips trailing
\* zeros
StripTrailingZerosKept(digits, exp10) == [digits |-> digits, exp10 |-> exp10]

\* the loop of formatCanonicalJSONRPCNumericID that strips trailing zeros
RECURSIVE StripTrailingZeros(_, _)
StripTrailingZeros(digits, exp10) ==
    IF Len(digits) > 0 /\ digits[Len(digits)] = "0"
    THEN StripTrailingZeros(SubSeq(digits, 1, Len(digits) - 1), exp10 + 1)
    ELSE [digits |-> digits, exp10 |-> exp10]

KeyOk(k) == [err |-> "", key |-> k]
KeyErr(e) == [err |-> e, key |-> <<>>]

\* the final length check of the integer form (connection.go:283-291)
formatCanonicalInteger(sign, result) ==
    IF Len(result) > maxCanonicalJSONRPCIDKeyLen + Len(sign)
    THEN KeyErr(ErrTooLarge) ELSE KeyOk(result)

\* the three forms without the check of the leading zeros of 0.000ddd
\* (connection.go:309-311)
formatCanonicalStrippedUnchecked(sign, digits, exp10) ==
    IF digits = <<>> THEN KeyOk(<<"0">>)
    ELSE IF exp10 >= 0 THEN
        IF exp10 > maxCanonicalJSONRPCIDKeyLen - Len(digits) THEN KeyErr(ErrTooLarge)
        ELSE formatCanonicalInteger(sign, sign \o digits \o Repeat("0", exp10))
    ELSE IF -exp10 > maxCanonicalJSONRPCIDKeyLen THEN KeyErr(ErrTooLarge)
    ELSE IF Len(digits) > -exp10 THEN
        IF Len(digits) + 1 > maxCanonicalJSONRPCIDKeyLen
        THEN KeyErr(ErrTooLarge)
        ELSE KeyOk(sign \o SubSeq(digits, 1, Len(digits) + exp10) \o <<".">>
                   \o SubSeq(digits, Len(digits) + exp10 + 1, Len(digits)))
    ELSE KeyOk(sign \o <<"0", ".">> \o Repeat("0", -exp10 - Len(digits)) \o digits)

\* the three forms: integer, digits with a point inside, 0.000ddd
\* (connection.go:274-316)
formatCanonicalStripped(sign, digits, exp10) ==
    IF digits = <<>> THEN KeyOk(<<"0">>)
    ELSE IF exp10 >= 0 THEN
        IF exp10 > maxCanonicalJSONRPCIDKeyLen - Len(digits) THEN KeyErr(ErrTooLarge)
        ELSE formatCanonicalInteger(sign, sign \o digits \o Repeat("0", exp10))
    ELSE IF -exp10 > maxCanonicalJSONRPCIDKeyLen THEN KeyErr(ErrTooLarge)
    ELSE IF Len(digits) > -exp10 THEN
        IF Len(digits) + 1 > maxCanonicalJSONRPCIDKeyLen
        THEN KeyErr(ErrTooLarge)
        ELSE KeyOk(sign \o SubSeq(digits, 1, Len(digits) + exp10) \o <<".">>
                   \o SubSeq(digits, Len(digits) + exp10 + 1, Len(digits)))
    ELSE IF -exp10 - Len(digits) > maxCanonicalJSONRPCIDKeyLen - Len(digits) - 2
        THEN KeyErr(ErrTooLarge)
    ELSE KeyOk(sign \o <<"0", ".">> \o Repeat("0", -exp10 - Len(digits)) \o digits)

formatCanonicalStrippedRecord(sign, st) ==
    formatCanonicalStripped(sign, st.digits, st.exp10)

formatCanonicalJSONRPCNumericID(negative, digits, exp10) ==
    formatCanonicalStrippedRecord(IF negative THEN <<"-">> ELSE <<>>,
                                  StripTrailingZeros(digits, exp10))

canonicalJSONRPCNumericIDParsed(p) ==
    IF p.err # "" THEN KeyErr(p.err)
    ELSE formatCanonicalJSONRPCNumericID(p.negative, p.digits, p.exp10)

canonicalJSONRPCNumericIDTrimmed(raw) ==
    IF raw = <<>> THEN KeyErr(ErrInvalid)
    ELSE canonicalJSONRPCNumericIDParsed(parseJSONRPCNumericID(raw))

canonicalJSONRPCNumericIDKey(v) == canonicalJSONRPCNumericIDTrimmed(TrimSpace(v))

(***************************************************************************)
(* JSON string ids.  The decoder (encoding/json, used at connection.go:104 *)
(* -110) unescapes the text; json.Marshal (connection.go:124) re-encodes   *)
(* it.  The modelled alphabet is printable ASCII, code points 0x20..0x7e   *)
(* (the grave accent, 0x60, is written GRAVE).                             *)
(***************************************************************************)
PrintableASCII == <<
    " ", "!", "\"", "#", "$", "%", "&", "'", "(", ")", "*", "+", ",", "-", ".", "/",
    "0", "1", "2", "3", "4", "5", "6", "7", "8", "9", ":", ";", "<", "=", ">", "?",
    "@", "A", "B", "C", "D", "E", "F", "G", "H", "I", "J", "K", "L", "M", "N", "O",
    "P", "Q", "R", "S", "T", "U", "V", "W", "X", "Y", "Z", "[", "\\", "]", "^", "_",
    "GRAVE", "a", "b", "c", "d", "e", "f", "g", "h", "i", "j", "k", "l", "m", "n", "o",
    "p", "q", "r", "s", "t", "u", "v", "w", "x", "y", "z", "{", "|", "}", "~"
>>

HexChars == <<"0", "1", "2", "3", "4", "5", "6", "7", "8", "9",
              "a", "b", "c", "d", "e", "f">>
HexUpper == <<"0", "1", "2", "3", "4", "5", "6", "7", "8", "9",
              "A", "B", "C", "D", "E", "F">>

IsHex(ch) == \E d \in 1..16 : HexChars[d] = ch \/ HexUpper[d] = ch

HexValue(ch) == (CHOOSE d \in 1..16 : HexChars[d] = ch \/ HexUpper[d] = ch) - 1

\* the character of a \uXXXX escape whose code point is printable ASCII
UnicodeEscapeOk(s, i) ==
    /\ i + 5 <= Len(s)
    /\ \A k \in 2..5 : IsHex(s[i + k])
    /\ s[i + 2] = "0" /\ s[i + 3] = "0"
    /\ 16 * HexValue(s[i + 4]) + HexValue(s[i + 5]) \in 32..126

UnicodeEscapeChar(s, i) ==
    PrintableASCII[16 * HexValue(s[i + 4]) + HexValue(s[i + 5]) - 31]

\* one decoded character in front of the decoded rest
PrependDecoded(ch, rest) == [ok |-> rest.ok, text |-> <<ch>> \o rest.text]

\* decode the body of a JSON string literal starting at index i
RECURSIVE DecodeJSONString(_, _)
DecodeJSONString(s, i) ==
    IF i > Len(s) THEN [ok |-> TRUE, text |-> <<>>]
    ELSE IF s[i] = "\"" THEN [ok |-> FALSE, text |-> <<>>]
    ELSE IF s[i] = "\\" THEN
        IF i + 1 > Len(s) THEN [ok |-> FALSE, text |-> <<>>]
        ELSE IF s[i + 1] \in {"\"", "\\", "/"} THEN
            PrependDecoded(s[i + 1], DecodeJSONString(s, i + 2))
        ELSE IF s[i + 1] = "u" /\ UnicodeEscapeOk(s, i) THEN
            PrependDecoded(UnicodeEscapeChar(s, i), DecodeJSONString(s, i + 6))
        ELSE [ok |-> FALSE, text |-> <<>>]
    ELSE PrependDecoded(s[i], DecodeJSONString(s, i + 1))

\* json.Marshal of a string: quotes, backslash escapes, HTML-safe escapes
EncodeJSONChar(ch) ==
    IF ch = "\"" THEN <<"\\", "\"">>
    ELSE IF ch = "\\" THEN <<"\\", "\\">>
    ELSE IF ch = "<" THEN <<"\\", "u", "0", "0", "3", "c">>
    ELSE IF ch = ">" THEN <<"\\", "u", "0", "0", "3", "e">>
    ELSE IF ch = "&" THEN <<"\\", "u", "0", "0", "2", "6">>
    ELSE <<ch>>

RECURSIVE EncodeJSONText(_)
EncodeJSONText(text) ==
    IF text = <<>> THEN <<>> ELSE EncodeJSONChar(Head(text)) \o EncodeJSONText(Tail(text))

MarshalJSONString(text) == <<"\"">> \o EncodeJSONText(text) \o <<"\"">>

\* json.Marshal of a json.RawMessage, as sendMessage does with the id of a
\* reply (connection.go:482): the text is compacted, that is, white space
\* between tokens is dropped and <, > and & inside strings are escaped;
\* everything else is copied
WhiteSpace == {" ", "\t", "\r", "\n"}

RECURSIVE CompactJSON(_, _)
CompactJSON(text, inString) ==
    IF text = <<>> THEN <<>>
    ELSE IF inString THEN
        IF Head(text) = "\\" /\ Len(text) >= 2
            THEN <<text[1], text[2]>> \o CompactJSON(Tail(Tail(text)), TRUE)
        ELSE IF Head(text) = "\""
            THEN <<"\"">> \o CompactJSON(Tail(text), FALSE)
        ELSE EncodeJSONChar(Head(text)) \o CompactJSON(Tail(text), TRUE)
    ELSE IF Head(text) \in WhiteSpace THEN CompactJSON(Tail(text), FALSE)
    ELSE <<Head(text)>> \o CompactJSON(Tail(text), Head(text) = "\"")

MarshalRawMessage(raw) == CompactJSON(raw, FALSE)

(***************************************************************************)
(* canonicalJSONRPCIDKey (connection.go:98-134).  The decoder syntax       *)
(* errors and the trailing-data error are all reported as an error; the    *)
(* callers treat every error alike.                                        *)
(***************************************************************************)
NullText == <<"n", "u", "l", "l">>
TrueText == <<"t", "r", "u", "e">>
FalseText == <<"f", "a", "l", "s", "e">>

\* the key of a decoded string without the re-encoding
canonicalStringKeyBare(d) ==
    IF d.ok THEN KeyOk(d.text) ELSE KeyErr("invalid json")

\* the key of a decoded string (connection.go:123-128)
canonicalStringKey(d) ==
    IF d.ok THEN KeyOk(MarshalJSONString(d.text)) ELSE KeyErr("invalid json")

canonicalJSONRPCIDKeyTrimmed(trimmed) ==
    IF trimmed = <<>> THEN KeyErr("empty json-rpc id")
    ELSE IF trimmed = NullText THEN KeyOk(NullText)
    ELSE IF trimmed[1] = "\"" THEN
        IF Len(trimmed) < 2 \/ trimmed[Len(trimmed)] # "\"" THEN KeyErr("invalid json")
        ELSE canonicalStringKey(
                 DecodeJSONString(SubSeq(trimmed, 2, Len(trimmed) - 1), 1))
    ELSE IF trimmed[1] = "-" \/ isASCIIDigit(trimmed[1])
        THEN canonicalJSONRPCNumericIDKey(trimmed)
    ELSE IF trimmed \in {TrueText, FalseText} \/ trimmed[1] \in {"[", "{"}
        THEN KeyErr("json-rpc id must be string, number, or null")
    ELSE KeyErr("invalid json")

canonicalJSONRPCIDKey(raw) == canonicalJSONRPCIDKeyTrimmed(TrimSpace(raw))

(***************************************************************************)
(* Bounds of the model.                                                    *)
(***************************************************************************)
MaxLines == 3          \* lines the peer sends per run
MaxCalls == 2          \* outbound requests (SendRequest calls) per run
MaxRequests == 2       \* inbound requests (request workers) per run
MaxNotifications == 2  \* inbound notifications (notification workers) per run
MaxSends == 1          \* SendNotification calls of the application, per run
MaxTasks == 2          \* calls and request workers together, per run

(***************************************************************************)
(* The peer's vocabulary.  Raw ids are the JSON text of the id as the peer *)
(* wrote it.                                                               *)
(***************************************************************************)
\* ids the peer puts on response lines: encodings of the ids of the calls
\* and an id that is never issued
ResponseIdTexts ==
    {<<"1", "e", "0">>, <<"2", ".", "0">>, <<"9">>}
        \cup {DecimalText(k) : k \in 3..MaxCalls}

\* ids the peer puts on its own requests
RequestIdTexts ==
    {<<"1", "e", "0">>, <<"\"", "\\", "u", "0", "0", "6", "1", "\"">>}

\* ids the peer names in $/cancel_request
CancelIdTexts == {<<"1">>, <<"\"", "a", "\"">>}

\* ids that are JSON values but neither string, number nor null: a boolean,
\* an array written with a space, an object
UncanonicalIdTexts ==
    {TrueText, <<"[", "1", ",", " ", "2", "]">>, <<"{", "}">>}

\* the canonical key of every id the peer may write, computed once
IdTexts ==
    ResponseIdTexts \cup RequestIdTexts \cup CancelIdTexts
        \cup UncanonicalIdTexts
canonicalKeys == [raw \in IdTexts |-> canonicalJSONRPCIDKey(raw)]

Payloads == {"result", "error"}

\* what a handler does (the handler is the caller's code, MethodHandler,
\* connection.go:33): return a result, return an error, wait for its
\* context and return the mapped context error, or call SendRequest on the
\* same connection and return what the call returned
RequestScripts == {"ok", "err", "waitCtx", "nested"}
NotificationScripts == {"return", "nested"}

\* methods the peer names: one of the generated dispatch and one of an
\* extension (part_007:48, acp_test.go:922)
LoadMethod == <<"s", "e", "s", "s", "i", "o", "n", "/", "l", "o", "a", "d">>
VendorMethod == <<"_", "v", "e", "n", "d", "o", "r", ".", "t", "e", "s", "t", "/", "e", "c", "h", "o">>

(***************************************************************************)
(* Error taxonomy.  errors.go is not among the sources; the codes are the  *)
(* ones of the specification (section 4.6) and of errors_test.go.          *)
(***************************************************************************)
CodeMethodNotFound == -32601
CodeInvalidParams == -32602
CodeInternalError == -32603
CodeRequestCancelled == -32800
CodeHandlerError == -32000  \* some code of the handler's own choosing
CodePeerError == -32001     \* some code carried by a peer's error response

\* the errors made with errors.Join, by their text, with the errors they
\* wrap (errors_test.go:10)
JoinedErrors ==
    [err \in {"context canceled; extra context"} |->
        {"context canceled", "extra context"}]

\* errors.Is(err, target) on the errors of the model
ErrorsIs(err, target) ==
    err = target \/ (err \in DOMAIN JoinedErrors /\ target \in JoinedErrors[err])

\* toReqErr: the code a context cause is mapped to
toReqErr(cause) ==
    IF ErrorsIs(cause, "context canceled")
    THEN CodeRequestCancelled ELSE CodeInternalError

(***************************************************************************)
(* Tasks.                                                                  *)
(***************************************************************************)
NoTask == <<"none">>
User == <<"user">>
EmitterTask == <<"emitter">>
CallTask(k) == <<"call", k>>
ReqTask(i) == <<"req", i>>
NtfTask(j) == <<"ntf", j>>

Calls == 1..MaxCalls
Sends == 1..MaxSends
NoteTask(n) == <<"note", n>>
Requests == 1..MaxRequests
Notifications == 1..MaxNotifications

NoMsg == [id |-> <<>>, payload |-> "none"]

\* Go maps as functions
MapPut(m, k, v) == [x \in (DOMAIN m) \cup {k} |-> IF x = k THEN v ELSE m[x]]
MapDel(m, k) == [x \in (DOMAIN m) \ {k} |-> m[x]]
EmptyMap == [x \in {} |-> 0]

VARIABLES
    handlerNil,            \* c.handler == nil
    closed,                \* c.ctx is done (Done() is closed)
    readerPc,              \* the receive goroutine: "scan" or "exited"
    linesRead,             \* lines scanned so far
    pending,               \* c.pending: key -> the call that owns the mailbox
    inflight,              \* c.inflight: key -> the request worker whose cancel it is
    pendingCancelRequest,  \* c.pendingCancelRequest
    cancelRequestSignal,   \* number of tokens in c.cancelRequestSignal (cap 1)
    nextID,                \* c.nextID
    notificationWg,        \* counter of c.notificationWg
    writeMu,               \* holder of c.writeMu
    wire,                  \* the lines written to the peer, as a bag
    calls,                 \* the SendRequest calls
    reqs,                  \* the inbound request workers
    ntfs,                  \* the inbound notification workers
    emitter,               \* the sendCancelRequests goroutine: [pc, idKey]
    peerRx,                \* the peer's read side: "reading", "ceased", "closed"
    canon,                 \* two raw ids and the results of canonicalJSONRPCIDKey
    extensionHandler,      \* the domain object implements ExtensionMethodHandler
    queue,                 \* an unboundedQueue with the goroutines that use it
    notes,                 \* the SendNotification calls of the application
    cancels,               \* a connection whose calls are all cancelled
    sections               \* c.mu, c.writeMu and the goroutines' positions

\* the state of the functions that are checked on their own, apart from any
\* connection; the steps of a connection leave it alone
unitVars == <<canon, extensionHandler, queue, notes, cancels, sections>>

\* the state of a connection
connectionVars ==
    <<handlerNil, closed, readerPc, linesRead, pending, inflight,
      pendingCancelRequest, cancelRequestSignal, nextID, notificationWg,
      writeMu, wire, calls, reqs, ntfs, emitter, peerRx>>

vars == <<connectionVars, unitVars>>

\* a call: its position, the task that makes it, the state of the context
\* the application gave it, the mailbox pr.ch, the response taken from it,
\* the code and kind of what it returned, and (for the drain property) the
\* number of notification workers spawned when its response line was read
IdleCall ==
    [pc |-> "unused", owner |-> NoTask, ctx |-> "live", mailbox |-> <<>>,
     resp |-> NoMsg, code |-> 0, outcome |-> "", ntfSeen |-> 0]

\* a request worker: its position, the raw id and the inflight key, the
\* number of the line that carried the request, whether every earlier
\* request with an id of the same value had been answered when that line
\* was read, the method, what its handler does, where handleWithExtensions
\* sent it ("extension", "generated" or "none"), the cause its context was
\* cancelled with ("" while it is live), and the code of its reply (0 for
\* a result)
IdleReq ==
    [pc |-> "unused", id |-> <<>>, key |-> <<>>, line |-> 0, idFree |-> TRUE,
     method |-> <<>>, script |-> "", to |-> "", cause |-> "", replyCode |-> 0,
     invoked |-> 0]

\* a notification worker: its position, the method, what its handler does,
\* where handleWithExtensions sent it, the code of the error the handler
\* returned (0 for none), whether handleInbound logged the error, and the
\* number of the line that carried the notification
IdleNtf ==
    [pc |-> "unused", method |-> <<>>, script |-> "", to |-> "", code |-> 0,
     logged |-> FALSE, line |-> 0]

\* a SendNotification call: its position, whether its context was done at
\* the call, and the code it returned (0 for nil)
IdleNote == [pc |-> "unused", ctxDone |-> FALSE, code |-> 0]

\* no ids given to canonicalJSONRPCIDKey
NoCanon == [pc |-> "idle"]

\* no unboundedQueue in use
NoQueue == [pc |-> "idle"]

\* a new connection seen from its cancel queue: c.pendingCancelRequest, the
\* tokens in c.cancelRequestSignal, Done, c.nextID, the keys of c.pending,
\* the one SendRequest call in progress, the sendCancelRequests goroutine,
\* and the counts of ids dropped and of $/cancel_request lines written
NoCancels ==
    [pendingCancelRequest |-> <<>>, cancelRequestSignal |-> 0,
     closed |-> FALSE, nextID |-> 0, pending |-> {},
     call |-> [pc |-> "none", id |-> 0, code |-> 0],
     emitter |-> [pc |-> "select", idKey |-> <<>>, popped |-> 0],
     dropped |-> 0, written |-> 0]

\* the goroutines of a connection by the order of their operations on the
\* two mutexes: both mutexes free, every goroutine at its first operation
NoSections ==
    [mu |-> "free", writeMu |-> "free",
     pc |-> [t \in {"receive", "SendRequest", "worker", "sendCancelRequests"} |-> 1]]

\* NewConnection (connection.go:59-74)
ConnectionInit ==
    /\ handlerNil \in BOOLEAN
    /\ closed = FALSE
    /\ readerPc = "scan"
    /\ linesRead = 0
    /\ pending = EmptyMap
    /\ inflight = EmptyMap
    /\ pendingCancelRequest = <<>>
    /\ cancelRequestSignal = 0
    /\ nextID = 0
    /\ notificationWg = 0
    /\ writeMu = NoTask
    /\ wire = EmptyBag
    /\ calls = [k \in Calls |-> IdleCall]
    /\ reqs = [i \in Requests |-> IdleReq]
    /\ ntfs = [j \in Notifications |-> IdleNtf]
    /\ emitter = [pc |-> "select", idKey |-> <<>>]
    /\ peerRx = "reading"
    /\ notes = [n \in Sends |-> IdleNote]
    /\ cancels = NoCancels
    /\ sections = NoSections

Init ==
    /\ ConnectionInit
    /\ canon = NoCanon /\ extensionHandler = FALSE /\ queue = NoQueue

(***************************************************************************)
(* Writing a line, sendMessage (connection.go:480-492).  The Write is done *)
(* under writeMu.  A Write to a peer that reads is one step.  A peer that  *)
(* has ceased reading blocks the writer, which keeps writeMu; a peer that  *)
(* has closed its read side makes the Write fail.  The peer ceases or      *)
(* closes at the moment a writer first notices.                            *)
(***************************************************************************)
WireLine(kind, id, code) == [kind |-> kind, id |-> id, code |-> code]

\* the Write of task t completes
WriteDone(t, pc, line) ==
    /\ pc = "write"
    /\ writeMu = NoTask
    /\ peerRx = "reading"
    /\ wire' = wire (+) SetToBag({line})
    /\ UNCHANGED <<writeMu, peerRx>>

\* a Write that blocks without c.writeMu being taken
WriteBlockedUnlocked(t, pc) ==
    /\ pc = "write"
    /\ peerRx # "closed"
    /\ peerRx' = "ceased"
    /\ writeMu' = t
    /\ UNCHANGED wire

\* the Write of task t blocks: the peer has ceased reading
WriteBlocked(t, pc) ==
    /\ pc = "write"
    /\ writeMu = NoTask
    /\ peerRx # "closed"
    /\ peerRx' = "ceased"
    /\ writeMu' = t
    /\ UNCHANGED wire

\* the Write of task t returns an error: the peer has closed its read side
WriteError(t, pc) ==
    /\ \/ pc = "write" /\ writeMu = NoTask
       \/ pc = "writing" /\ writeMu = t
    /\ peerRx' = "closed"
    /\ writeMu' = NoTask
    /\ UNCHANGED wire

(***************************************************************************)
(* The reader loop, Connection.receive (connection.go:319-392).  One line  *)
(* is scanned and handled per step; the peer chooses the line.             *)
(***************************************************************************)
maxPendingCancelRequests == 1024

\* the key a raw id is filed under: the canonical key, or the raw text when
\* canonicalization fails (connection.go:353-357, 395-399, 424-428)
\* IdKey without canonicalization: the raw text of the id
IdKeyRaw(raw) == raw

IdKey(raw) ==
    IF canonicalKeys[raw].err # "" THEN raw ELSE canonicalKeys[raw].key

Spawned(ws) == {w \in DOMAIN ws : ws[w].pc # "unused"}

\* the reader is in scanner.Scan() (connection.go:327)
CanScan == readerPc = "scan"

\* a line that fails to parse ends the loop as the end of input does
ReadSkippedLineExits ==
    /\ CanScan
    /\ linesRead' = linesRead + 1
    /\ closed' = TRUE
    /\ readerPc' = "exited"
    /\ UNCHANGED <<unitVars, handlerNil, pending, inflight,
                   pendingCancelRequest, cancelRequestSignal, nextID,
                   notificationWg, writeMu, wire, calls, reqs, ntfs, emitter,
                   peerRx>>

\* a blank line, a line that fails to parse, a message with neither id nor
\* method, a $/cancel_request with unusable params: logged or skipped
ReadSkippedLine ==
    /\ CanScan
    /\ linesRead' = linesRead + 1
    /\ UNCHANGED <<unitVars, handlerNil, closed, readerPc, pending, inflight,
                   pendingCancelRequest, cancelRequestSignal, nextID,
                   notificationWg, writeMu, wire, calls, reqs, ntfs, emitter,
                   peerRx>>

\* handleResponse handing a response without pending entry to the call
\* that was given the id
ReadResponseUnchecked(raw, payload) ==
    /\ CanScan
    /\ linesRead' = linesRead + 1
    /\ LET idStr == IdKey(raw)
           issued == {k \in Calls : calls[k].pc # "unused" /\ DecimalText(k) = idStr}
       IN
       IF issued # {}
       THEN /\ pending' = MapDel(pending, idStr)
            /\ calls' = [k \in Calls |->
                 IF k \in issued
                 THEN [calls[k] EXCEPT
                         !.mailbox = Append(@, [id |-> raw, payload |-> payload]),
                         !.ntfSeen = Cardinality(Spawned(ntfs))]
                 ELSE calls[k]]
       ELSE UNCHANGED <<pending, calls>>
    /\ UNCHANGED <<unitVars, handlerNil, closed, readerPc, inflight, pendingCancelRequest,
                   cancelRequestSignal, nextID, notificationWg, writeMu, wire,
                   reqs, ntfs, emitter, peerRx>>

\* handleResponse (connection.go:394-411): the entry is removed and the
\* message is put in its mailbox, which has capacity 1 and is sent to only
\* here (MailboxNeverFull shows that the send cannot block)
ReadResponse(raw, payload) ==
    /\ CanScan
    /\ linesRead' = linesRead + 1
    /\ LET idStr == IdKey(raw) IN
       IF idStr \in DOMAIN pending
       THEN /\ pending' = MapDel(pending, idStr)
            /\ calls' = [calls EXCEPT
                 ![pending[idStr]].mailbox =
                     Append(@, [id |-> raw, payload |-> payload]),
                 ![pending[idStr]].ntfSeen = Cardinality(Spawned(ntfs))]
       ELSE UNCHANGED <<pending, calls>>
    /\ UNCHANGED <<unitVars, handlerNil, closed, readerPc, inflight, pendingCancelRequest,
                   cancelRequestSignal, nextID, notificationWg, writeMu, wire,
                   reqs, ntfs, emitter, peerRx>>

\* a request handled by the reader itself: the next line is not read before
\* the handlers and the replies of the earlier ones are through
ReadRequestInline(raw, method, script) ==
    /\ CanScan
    /\ \A h \in Requests : reqs[h].pc \in {"unused", "done"}
    /\ \E i \in Requests :
        /\ reqs[i].pc = "unused"
        /\ \A h \in 1..(i - 1) : reqs[h].pc # "unused"
        /\ LET idKey == IdKey(raw) IN
           /\ inflight' = MapPut(inflight, idKey, i)
           /\ reqs' = [reqs EXCEPT ![i] =
                         [pc |-> "handler", id |-> raw, key |-> idKey,
                          line |-> linesRead + 1, idFree |-> TRUE,
                          method |-> method, script |-> script, to |-> "",
                          cause |-> "", replyCode |-> 0, invoked |-> 0]]
    /\ linesRead' = linesRead + 1
    /\ UNCHANGED <<unitVars, handlerNil, closed, readerPc, pending, pendingCancelRequest,
                   cancelRequestSignal, nextID, notificationWg, writeMu, wire,
                   calls, ntfs, emitter, peerRx>>

\* a request whose id cannot be canonicalized is dropped as a line that
\* does not parse is
ReadRequestCanonicalOnly(raw, method, script) ==
    /\ CanScan
    /\ IF canonicalKeys[raw].err # ""
       THEN UNCHANGED <<inflight, reqs>>
       ELSE \E i \in Requests :
               /\ reqs[i].pc = "unused"
               /\ \A h \in 1..(i - 1) : reqs[h].pc # "unused"
               /\ LET idKey == IdKey(raw) IN
                  /\ inflight' = MapPut(inflight, idKey, i)
                  /\ reqs' = [reqs EXCEPT ![i] =
                                [pc |-> "handler", id |-> raw, key |-> idKey,
                                 line |-> linesRead + 1,
                                 idFree |-> \A h \in Requests :
                                     reqs[h].key = idKey =>
                                         reqs[h].pc \in {"deferred", "done"},
                                 method |-> method, script |-> script, to |-> "",
                                 cause |-> "", replyCode |-> 0, invoked |-> 0]]
    /\ linesRead' = linesRead + 1
    /\ UNCHANGED <<unitVars, handlerNil, closed, readerPc, pending, pendingCancelRequest,
                   cancelRequestSignal, nextID, notificationWg, writeMu, wire,
                   calls, ntfs, emitter, peerRx>>

\* a request: register the cancel handle, then spawn the worker
\* (connection.go:352-376)
ReadRequest(raw, method, script) ==
    /\ CanScan
    /\ \E i \in Requests :
        /\ reqs[i].pc = "unused"
        /\ \A h \in 1..(i - 1) : reqs[h].pc # "unused"
        /\ LET idKey == IdKey(raw) IN
           /\ inflight' = MapPut(inflight, idKey, i)
           /\ reqs' = [reqs EXCEPT ![i] =
                         [pc |-> "handler", id |-> raw, key |-> idKey,
                          line |-> linesRead + 1,
                          idFree |-> \A h \in Requests :
                              reqs[h].key = idKey =>
                                  reqs[h].pc \in {"deferred", "done"},
                          method |-> method, script |-> script, to |-> "",
                          cause |-> "", replyCode |-> 0, invoked |-> 0]]
    /\ linesRead' = linesRead + 1
    /\ UNCHANGED <<unitVars, handlerNil, closed, readerPc, pending, pendingCancelRequest,
                   cancelRequestSignal, nextID, notificationWg, writeMu, wire,
                   calls, ntfs, emitter, peerRx>>

\* a notification: count it, then spawn the worker (connection.go:378-384)
ReadNotification(method, script) ==
    /\ CanScan
    /\ \E j \in Notifications :
        /\ ntfs[j].pc = "unused"
        /\ \A h \in 1..(j - 1) : ntfs[h].pc # "unused"
        /\ ntfs' = [ntfs EXCEPT ![j] =
                       [pc |-> "handler", method |-> method, script |-> script,
                        to |-> "", code |-> 0, logged |-> FALSE,
                        line |-> linesRead + 1]]
    /\ notificationWg' = notificationWg + 1
    /\ linesRead' = linesRead + 1
    /\ UNCHANGED <<unitVars, handlerNil, closed, readerPc, pending, inflight,
                   pendingCancelRequest, cancelRequestSignal, nextID, writeMu,
                   wire, calls, reqs, emitter, peerRx>>

\* a CancelCauseFunc records the cause of the first call only
CancelWith(r, cause) == IF r.cause = "" THEN [r EXCEPT !.cause = cause] ELSE r

\* a call of the request's context.CancelCauseFunc, the handle kept in
\* c.inflight and passed to the worker (connection.go:358, 371, 437): only the
\* first cancellation of the context takes effect
InvokeCancel(r, cause) == [CancelWith(r, cause) EXCEPT !.invoked = @ + 1]

\* handleCancelRequest calling the handle of every request whose raw id
\* has the key, entered or not
ReadCancelRequestByKey(raw) ==
    /\ CanScan
    /\ linesRead' = linesRead + 1
    /\ reqs' = [i \in Requests |->
                  IF reqs[i].pc # "unused" /\ reqs[i].key = IdKey(raw)
                  THEN InvokeCancel(reqs[i], "context canceled")
                  ELSE reqs[i]]
    /\ UNCHANGED <<unitVars, handlerNil, closed, readerPc, pending, inflight,
                   pendingCancelRequest, cancelRequestSignal, nextID,
                   notificationWg, writeMu, wire, calls, ntfs, emitter, peerRx>>

\* handleCancelRequest (connection.go:413-438): look the handle up under the
\* canonical key and call it with context.Canceled
ReadCancelRequest(raw) ==
    /\ CanScan
    /\ linesRead' = linesRead + 1
    /\ LET idKey == IdKey(raw) IN
       IF idKey \in DOMAIN inflight
       THEN reqs' = [reqs EXCEPT ![inflight[idKey]] =
                       InvokeCancel(@, "context canceled")]
       ELSE UNCHANGED reqs
    /\ UNCHANGED <<unitVars, handlerNil, closed, readerPc, pending, inflight,
                   pendingCancelRequest, cancelRequestSignal, nextID,
                   notificationWg, writeMu, wire, calls, ntfs, emitter, peerRx>>

\* the end of the loop with request contexts that do not derive from c.ctx
ReadEOFDetached ==
    /\ readerPc = "scan"
    /\ closed' = TRUE
    /\ readerPc' = "exited"
    /\ UNCHANGED <<unitVars, handlerNil, linesRead, pending, inflight,
                   pendingCancelRequest, cancelRequestSignal, nextID,
                   notificationWg, writeMu, wire, calls, reqs, ntfs, emitter, peerRx>>

\* EOF or a read error: the loop ends and c.cancel closes Done; the request
\* contexts derive from c.ctx (connection.go:358, 390)
ReadEOF ==
    /\ readerPc = "scan"
    /\ closed' = TRUE
    /\ readerPc' = "exited"
    /\ reqs' = [i \in Requests |->
                  IF reqs[i].pc = "unused" THEN reqs[i]
                  ELSE CancelWith(reqs[i], "peer connection closed")]
    /\ UNCHANGED <<unitVars, handlerNil, linesRead, pending, inflight,
                   pendingCancelRequest, cancelRequestSignal, nextID,
                   notificationWg, writeMu, wire, calls, ntfs, emitter, peerRx>>

(***************************************************************************)
(* Outbound requests: SendRequest / SendRequestNoResult                    *)
(* (connection.go:496-534, 653-683).  The two differ only in decoding the  *)
(* result into the caller's type, which is not modelled.                   *)
(***************************************************************************)
Returned(c, code, outcome) ==
    [c EXCEPT !.pc = "done", !.code = code, !.outcome = outcome]

\* SendRequest whose pending key is that of the first id for every call
BeginCallFirstId(owner, paramsOk) ==
    /\ nextID < MaxCalls
    /\ LET k == nextID + 1 IN
       /\ nextID' = k
       /\ IF paramsOk
          THEN /\ pending' = MapPut(pending, DecimalText(1), k)
               /\ calls' = [calls EXCEPT ![k] =
                     [IdleCall EXCEPT !.pc = "write", !.owner = owner]]
          ELSE /\ pending' = pending
               /\ calls' = [calls EXCEPT ![k] =
                     Returned([IdleCall EXCEPT !.owner = owner],
                              CodeInvalidParams, "invalid params")]

\* SendRequest that inserts the pending entry before it looks at the error
\* of prepareRequest
BeginCallInsertFirst(owner, paramsOk) ==
    /\ nextID < MaxCalls
    /\ LET k == nextID + 1 IN
       /\ nextID' = k
       /\ pending' = MapPut(pending, DecimalText(k), k)
       /\ IF paramsOk
          THEN calls' = [calls EXCEPT ![k] =
                     [IdleCall EXCEPT !.pc = "write", !.owner = owner]]
          ELSE calls' = [calls EXCEPT ![k] =
                     Returned([IdleCall EXCEPT !.owner = owner],
                              CodeInvalidParams, "invalid params")]

\* prepareRequest and the pending insert (connection.go:536-555, 504-507):
\* the id is the next value of the counter, the key is its decimal text
BeginCall(owner, paramsOk) ==
    /\ nextID < MaxCalls
    /\ LET k == nextID + 1 IN
       /\ nextID' = k
       /\ IF paramsOk
          THEN /\ pending' = MapPut(pending, DecimalText(k), k)
               /\ calls' = [calls EXCEPT ![k] =
                     [IdleCall EXCEPT !.pc = "write", !.owner = owner]]
          ELSE /\ pending' = pending
               /\ calls' = [calls EXCEPT ![k] =
                     Returned([IdleCall EXCEPT !.owner = owner],
                              CodeInvalidParams, "invalid params")]

\* a call made by the application, outside any handler
SendRequest(paramsOk) ==
    /\ BeginCall(User, paramsOk)
    /\ UNCHANGED <<unitVars, handlerNil, closed, readerPc, linesRead, inflight,
                   pendingCancelRequest, cancelRequestSignal, notificationWg,
                   writeMu, wire, reqs, ntfs, emitter, peerRx>>

\* sendMessage(msg) (connection.go:509)
CallWrites(k) ==
    /\ WriteDone(CallTask(k), calls[k].pc, WireLine("request", DecimalText(k), 0))
    /\ calls' = [calls EXCEPT ![k].pc = "wait"]
    /\ UNCHANGED <<unitVars, handlerNil, closed, readerPc, linesRead, pending, inflight,
                   pendingCancelRequest, cancelRequestSignal, nextID,
                   notificationWg, reqs, ntfs, emitter>>

CallWriteBlocks(k) ==
    /\ WriteBlocked(CallTask(k), calls[k].pc)
    /\ calls' = [calls EXCEPT ![k].pc = "writing"]
    /\ UNCHANGED <<unitVars, handlerNil, closed, readerPc, linesRead, pending, inflight,
                   pendingCancelRequest, cancelRequestSignal, nextID,
                   notificationWg, reqs, ntfs, emitter>>

\* the write fails and SendRequest returns without cleanupPending
CallWriteFailsNoCleanup(k) ==
    /\ WriteError(CallTask(k), calls[k].pc)
    /\ calls' = [calls EXCEPT ![k] = Returned(@, CodeInternalError, "write error")]
    /\ UNCHANGED <<unitVars, handlerNil, closed, readerPc, linesRead, pending, inflight,
                   pendingCancelRequest, cancelRequestSignal, nextID,
                   notificationWg, reqs, ntfs, emitter>>

\* the write fails: cleanupPending and an internal error
\* (connection.go:509-512)
CallWriteFails(k) ==
    /\ WriteError(CallTask(k), calls[k].pc)
    /\ pending' = MapDel(pending, DecimalText(k))
    /\ calls' = [calls EXCEPT ![k] = Returned(@, CodeInternalError, "write error")]
    /\ UNCHANGED <<unitVars, handlerNil, closed, readerPc, linesRead, inflight,
                   pendingCancelRequest, cancelRequestSignal, nextID,
                   notificationWg, reqs, ntfs, emitter>>

\* the context a call was given: the application's own, the request context
\* of the handler that makes the call, or c.ctx for a notification handler
\* (connection.go:373, 383)
CtxDone(k) ==
    LET o == calls[k].owner IN
    IF o = User THEN calls[k].ctx # "live"
    ELSE IF o[1] = "req" THEN reqs[o[2]].cause # ""
    ELSE closed

\* ctx.Err() in the place of context.Cause(ctx)
CtxErr(k) ==
    LET o == calls[k].owner IN
    IF o = User THEN (IF calls[k].ctx = "deadline"
                      THEN "context deadline exceeded" ELSE "context canceled")
    ELSE IF o[1] = "req" THEN reqs[o[2]].cause
    ELSE "peer connection closed"

\* context.Cause(ctx)
CtxCause(k) ==
    LET o == calls[k].owner IN
    IF o = User THEN (CASE calls[k].ctx = "canceled" -> "context canceled"
                        [] calls[k].ctx = "wrapped" ->
                               "context canceled; extra context"
                        [] calls[k].ctx = "other" -> "request aborted"
                        [] OTHER -> "context deadline exceeded")
    ELSE IF o[1] = "req" THEN reqs[o[2]].cause
    ELSE "peer connection closed"

\* waitForResponse, case resp := <-pr.ch (connection.go:617-618)
WaitGotResponse(k) ==
    /\ calls[k].pc = "wait"
    /\ calls[k].mailbox # <<>>
    /\ calls' = [calls EXCEPT ![k].pc = "drain",
                              ![k].resp = Head(calls[k].mailbox),
                              ![k].mailbox = <<>>]
    /\ UNCHANGED <<unitVars, handlerNil, closed, readerPc, linesRead, pending, inflight,
                   pendingCancelRequest, cancelRequestSignal, nextID,
                   notificationWg, writeMu, wire, reqs, ntfs, emitter, peerRx>>

\* WaitCtxDone without the inner select on c.Done()
WaitCtxDoneNoDoneCheck(k) ==
    /\ calls[k].pc = "wait"
    /\ CtxDone(k)
    /\ calls' = [calls EXCEPT ![k].pc = "sendCancel"]
    /\ UNCHANGED <<unitVars, handlerNil, closed, readerPc, linesRead, pending, inflight,
                   pendingCancelRequest, cancelRequestSignal, nextID,
                   notificationWg, writeMu, wire, reqs, ntfs, emitter, peerRx>>

\* case <-ctx.Done() with its inner select on c.Done() (connection.go:619-627)
WaitCtxDone(k) ==
    /\ calls[k].pc = "wait"
    /\ CtxDone(k)
    /\ IF closed
       THEN /\ pending' = MapDel(pending, DecimalText(k))
            /\ calls' = [calls EXCEPT ![k] =
                           Returned(@, CodeInternalError, "peer disconnected")]
       ELSE /\ pending' = pending
            /\ calls' = [calls EXCEPT ![k].pc = "sendCancel"]
    /\ UNCHANGED <<unitVars, handlerNil, closed, readerPc, linesRead, inflight,
                   pendingCancelRequest, cancelRequestSignal, nextID,
                   notificationWg, writeMu, wire, reqs, ntfs, emitter, peerRx>>

\* WaitConnDone without cleanupPending
WaitConnDoneNoCleanup(k) ==
    /\ calls[k].pc = "wait"
    /\ closed
    /\ calls' = [calls EXCEPT ![k] =
                   Returned(@, CodeInternalError, "peer disconnected")]
    /\ UNCHANGED <<unitVars, handlerNil, closed, readerPc, linesRead, pending, inflight,
                   pendingCancelRequest, cancelRequestSignal, nextID,
                   notificationWg, writeMu, wire, reqs, ntfs, emitter, peerRx>>

\* case <-c.Done() (connection.go:640-642)
WaitConnDone(k) ==
    /\ calls[k].pc = "wait"
    /\ closed
    /\ pending' = MapDel(pending, DecimalText(k))
    /\ calls' = [calls EXCEPT ![k] =
                   Returned(@, CodeInternalError, "peer disconnected")]
    /\ UNCHANGED <<unitVars, handlerNil, closed, readerPc, linesRead, inflight,
                   pendingCancelRequest, cancelRequestSignal, nextID,
                   notificationWg, writeMu, wire, reqs, ntfs, emitter, peerRx>>

\* sendCancelRequest, the check of the key and of Done (connection.go:582-591)
SendCancelCheckDone(k) ==
    /\ calls[k].pc = "sendCancel"
    /\ calls' = [calls EXCEPT ![k].pc =
                   IF TrimSpace(DecimalText(k)) = <<>> \/ closed
                   THEN "cleanup" ELSE "enqueue"]
    /\ UNCHANGED <<unitVars, handlerNil, closed, readerPc, linesRead, pending, inflight,
                   pendingCancelRequest, cancelRequestSignal, nextID,
                   notificationWg, writeMu, wire, reqs, ntfs, emitter, peerRx>>

\* CancelAndReturn without cleanupPending
CancelAndReturnNoCleanup(k) ==
    /\ calls[k].pc \in {"enqueue", "cleanup"}
    /\ IF calls[k].pc = "cleanup"
          \/ Len(pendingCancelRequest) >= maxPendingCancelRequests
       THEN UNCHANGED <<pendingCancelRequest, cancelRequestSignal>>
       ELSE /\ pendingCancelRequest' = Append(pendingCancelRequest, DecimalText(k))
            /\ cancelRequestSignal' = 1
    /\ calls' = [calls EXCEPT ![k] = Returned(@, toReqErr(CtxCause(k)), CtxCause(k))]
    /\ UNCHANGED <<unitVars, handlerNil, closed, readerPc, linesRead, pending, inflight, nextID,
                   notificationWg, writeMu, wire, reqs, ntfs, emitter, peerRx>>

\* CancelAndReturn without the send on cancelRequestSignal
CancelAndReturnNoSignal(k) ==
    /\ calls[k].pc \in {"enqueue", "cleanup"}
    /\ IF calls[k].pc = "cleanup"
          \/ Len(pendingCancelRequest) >= maxPendingCancelRequests
       THEN UNCHANGED pendingCancelRequest
       ELSE pendingCancelRequest' = Append(pendingCancelRequest, DecimalText(k))
    /\ pending' = MapDel(pending, DecimalText(k))
    /\ calls' = [calls EXCEPT ![k] = Returned(@, toReqErr(CtxCause(k)), CtxCause(k))]
    /\ UNCHANGED <<unitVars, handlerNil, closed, readerPc, linesRead, inflight, nextID,
                   cancelRequestSignal, notificationWg, writeMu, wire, reqs,
                   ntfs, emitter, peerRx>>

\* CancelAndReturn writing the notification itself, under writeMu
CancelAndReturnWriting(k) ==
    /\ calls[k].pc \in {"enqueue", "cleanup"}
    /\ IF calls[k].pc = "cleanup"
       THEN UNCHANGED <<wire, writeMu, peerRx>>
       ELSE WriteDone(CallTask(k), "write", WireLine("cancel", DecimalText(k), 0))
    /\ pending' = MapDel(pending, DecimalText(k))
    /\ calls' = [calls EXCEPT ![k] = Returned(@, toReqErr(CtxCause(k)), CtxCause(k))]
    /\ UNCHANGED <<unitVars, handlerNil, closed, readerPc, linesRead, inflight, nextID,
                   pendingCancelRequest, cancelRequestSignal, notificationWg,
                   reqs, ntfs, emitter>>

\* the rest of the cancel path (connection.go:593-610, 630-639): the bounded
\* append and the non-blocking signal, unless the Done check skipped them;
\* then cleanupPending and the mapped cause
CancelAndReturn(k) ==
    /\ calls[k].pc \in {"enqueue", "cleanup"}
    /\ IF calls[k].pc = "cleanup"
          \/ Len(pendingCancelRequest) >= maxPendingCancelRequests
       THEN UNCHANGED <<pendingCancelRequest, cancelRequestSignal>>
       ELSE /\ pendingCancelRequest' = Append(pendingCancelRequest, DecimalText(k))
            /\ cancelRequestSignal' = 1
    /\ pending' = MapDel(pending, DecimalText(k))
    /\ calls' = [calls EXCEPT ![k] = Returned(@, toReqErr(CtxCause(k)), CtxCause(k))]
    /\ UNCHANGED <<unitVars, handlerNil, closed, readerPc, linesRead, inflight, nextID,
                   notificationWg, writeMu, wire, reqs, ntfs, emitter, peerRx>>

\* DrainAndReturn without c.notificationWg.Wait()
DrainAndReturnNoWait(k) ==
    /\ calls[k].pc = "drain"
    /\ calls' = [calls EXCEPT ![k] =
         IF @.resp.payload = "error" THEN Returned(@, CodePeerError, "rpc error")
         ELSE Returned(@, 0, "result")]
    /\ UNCHANGED <<unitVars, handlerNil, closed, readerPc, linesRead, pending, inflight,
                   pendingCancelRequest, cancelRequestSignal, nextID,
                   notificationWg, writeMu, wire, reqs, ntfs, emitter, peerRx>>

\* c.notificationWg.Wait() and the result (connection.go:522-533, 677-682)
DrainAndReturn(k) ==
    /\ calls[k].pc = "drain"
    /\ notificationWg = 0
    /\ calls' = [calls EXCEPT ![k] =
         IF @.resp.payload = "error" THEN Returned(@, CodePeerError, "rpc error")
         ELSE Returned(@, 0, "result")]
    /\ UNCHANGED <<unitVars, handlerNil, closed, readerPc, linesRead, pending, inflight,
                   pendingCancelRequest, cancelRequestSignal, nextID,
                   notificationWg, writeMu, wire, reqs, ntfs, emitter, peerRx>>

\* the application cancels the context of its call, or its deadline passes;
\* the call looks at its context only in waitForResponse
EndContext(k, how) ==
    /\ calls[k].owner = User
    /\ calls[k].pc = "wait"
    /\ calls[k].ctx = "live"
    /\ calls' = [calls EXCEPT ![k].ctx = how]
    /\ UNCHANGED <<unitVars, handlerNil, closed, readerPc, linesRead, pending, inflight,
                   pendingCancelRequest, cancelRequestSignal, nextID,
                   notificationWg, writeMu, wire, reqs, ntfs, emitter, peerRx>>

(***************************************************************************)
(* Inbound request workers (connection.go:365-374) running handleInbound   *)
(* (connection.go:440-478).                                                *)
(***************************************************************************)
\* strings.HasPrefix
HasPrefix(s, prefix) ==
    Len(s) >= Len(prefix) /\ SubSeq(s, 1, Len(prefix)) = prefix

\* isExtensionMethodName (part_006:280-282)
isExtensionMethodName(method) == HasPrefix(method, <<"_">>)

\* handleWithExtensions with every method sent to the generated dispatch
handleWithExtensionsGenerated(method) == "generated"

\* handleWithExtensions (part_006:284-298, 300-314), the handler that the
\* domain connections install (client.go:26): where the method is sent
handleWithExtensions(method) ==
    IF isExtensionMethodName(method)
    THEN IF extensionHandler THEN "extension" ELSE "none"
    ELSE "generated"

\* the code of the error that the domain object's method returns, 0 for a
\* result: "notFound" is a method that answers NewMethodNotFound itself
\* (acp_test.go:987-991)
ScriptCode(script) ==
    IF script = "err" THEN CodeHandlerError
    ELSE IF script = "notFound" THEN CodeMethodNotFound
    ELSE 0

\* the reply to a request whose handler returned the error code (0 for a
\* result): json.Marshal fails on the result of script "unmarshalable"
\* (connection.go:466-476)
ReplyCode(script, code) ==
    IF code # 0 THEN code
    ELSE IF script = "unmarshalable" THEN CodeInternalError
    ELSE 0

\* handleInbound calling a handler that is nil as if it were there
HandlerReturnNilCalls(i) ==
    /\ reqs[i].pc = "handler"
    /\ \/ /\ handlerNil
          /\ reqs' = [reqs EXCEPT ![i].pc = "write",
                                  ![i].to = "generated",
                                  ![i].replyCode = ReplyCode("ok", 0)]
       \/ /\ ~handlerNil /\ handleWithExtensions(reqs[i].method) = "none"
          /\ reqs' = [reqs EXCEPT ![i].pc = "write", ![i].to = "none",
                                  ![i].replyCode = ReplyCode("", CodeMethodNotFound)]
       \/ /\ ~handlerNil /\ handleWithExtensions(reqs[i].method) # "none"
          /\ reqs[i].script \in {"ok", "err", "notFound", "unmarshalable"}
          /\ reqs' = [reqs EXCEPT
                        ![i].pc = "write",
                        ![i].to = handleWithExtensions(reqs[i].method),
                        ![i].replyCode =
                            ReplyCode(reqs[i].script, ScriptCode(reqs[i].script))]
       \/ /\ ~handlerNil /\ handleWithExtensions(reqs[i].method) # "none"
          /\ reqs[i].script = "waitCtx"
          /\ reqs[i].cause # ""
          \* <-ctx.Done(); return nil, toReqErr(ctx.Err())
          /\ reqs' = [reqs EXCEPT
                        ![i].pc = "write",
                        ![i].to = handleWithExtensions(reqs[i].method),
                        ![i].replyCode = toReqErr("context canceled")]
    /\ UNCHANGED <<unitVars, handlerNil, closed, readerPc, linesRead, pending, inflight,
                   pendingCancelRequest, cancelRequestSignal, nextID,
                   notificationWg, writeMu, wire, calls, ntfs, emitter, peerRx>>

\* the handler returns (or there is no handler): the reply is decided
HandlerReturn(i) ==
    /\ reqs[i].pc = "handler"
    /\ \/ /\ handlerNil
          /\ reqs' = [reqs EXCEPT ![i].pc = "write",
                                  ![i].replyCode = CodeMethodNotFound]
       \/ /\ ~handlerNil /\ handleWithExtensions(reqs[i].method) = "none"
          /\ reqs' = [reqs EXCEPT ![i].pc = "write", ![i].to = "none",
                                  ![i].replyCode = ReplyCode("", CodeMethodNotFound)]
       \/ /\ ~handlerNil /\ handleWithExtensions(reqs[i].method) # "none"
          /\ reqs[i].script \in {"ok", "err", "notFound", "unmarshalable"}
          /\ reqs' = [reqs EXCEPT
                        ![i].pc = "write",
                        ![i].to = handleWithExtensions(reqs[i].method),
                        ![i].replyCode =
                            ReplyCode(reqs[i].script, ScriptCode(reqs[i].script))]
       \/ /\ ~handlerNil /\ handleWithExtensions(reqs[i].method) # "none"
          /\ reqs[i].script = "waitCtx"
          /\ reqs[i].cause # ""
          \* <-ctx.Done(); return nil, toReqErr(ctx.Err())
          /\ reqs' = [reqs EXCEPT
                        ![i].pc = "write",
                        ![i].to = handleWithExtensions(reqs[i].method),
                        ![i].replyCode = toReqErr("context canceled")]
    /\ UNCHANGED <<unitVars, handlerNil, closed, readerPc, linesRead, pending, inflight,
                   pendingCancelRequest, cancelRequestSignal, nextID,
                   notificationWg, writeMu, wire, calls, ntfs, emitter, peerRx>>

\* the handler calls SendRequest with its request context
HandlerCalls(i) ==
    /\ ~handlerNil
    /\ reqs[i].pc = "handler" /\ reqs[i].script = "nested"
    /\ handleWithExtensions(reqs[i].method) # "none"
    /\ BeginCall(ReqTask(i), TRUE)
    /\ reqs' = [reqs EXCEPT ![i].pc = "nested",
                            ![i].to = handleWithExtensions(reqs[i].method)]
    /\ UNCHANGED <<unitVars, handlerNil, closed, readerPc, linesRead, inflight,
                   pendingCancelRequest, cancelRequestSignal, notificationWg,
                   writeMu, wire, ntfs, emitter, peerRx>>

CallOf(task) == CHOOSE k \in Calls : calls[k].owner = task

\* the nested call has returned: the handler returns its result or error
HandlerResumes(i) ==
    /\ reqs[i].pc = "nested"
    /\ calls[CallOf(ReqTask(i))].pc = "done"
    /\ reqs' = [reqs EXCEPT ![i].pc = "write",
                            ![i].replyCode = calls[CallOf(ReqTask(i))].code]
    /\ UNCHANGED <<unitVars, handlerNil, closed, readerPc, linesRead, pending, inflight,
                   pendingCancelRequest, cancelRequestSignal, nextID,
                   notificationWg, writeMu, wire, calls, ntfs, emitter, peerRx>>

\* sendMessage(res) with the canonical key in the place of the id
ReplyWritesCanonicalKey(i) ==
    /\ WriteDone(ReqTask(i), reqs[i].pc,
                 WireLine("reply", reqs[i].key, reqs[i].replyCode))
    /\ reqs' = [reqs EXCEPT ![i].pc = "deferred"]
    /\ UNCHANGED <<unitVars, handlerNil, closed, readerPc, linesRead, pending, inflight,
                   pendingCancelRequest, cancelRequestSignal, nextID,
                   notificationWg, calls, ntfs, emitter>>

\* sendMessage(res) (connection.go:449, 477): the reply echoes the raw id,
\* marshalled (connection.go:482)
ReplyWrites(i) ==
    /\ WriteDone(ReqTask(i), reqs[i].pc,
                 WireLine("reply", MarshalRawMessage(reqs[i].id),
                          reqs[i].replyCode))
    /\ reqs' = [reqs EXCEPT ![i].pc = "deferred"]
    /\ UNCHANGED <<unitVars, handlerNil, closed, readerPc, linesRead, pending, inflight,
                   pendingCancelRequest, cancelRequestSignal, nextID,
                   notificationWg, calls, ntfs, emitter>>

ReplyWriteBlocks(i) ==
    /\ WriteBlocked(ReqTask(i), reqs[i].pc)
    /\ reqs' = [reqs EXCEPT ![i].pc = "writing"]
    /\ UNCHANGED <<unitVars, handlerNil, closed, readerPc, linesRead, pending, inflight,
                   pendingCancelRequest, cancelRequestSignal, nextID,
                   notificationWg, calls, ntfs, emitter>>

\* the write error is ignored (connection.go:477)
ReplyWriteFails(i) ==
    /\ WriteError(ReqTask(i), reqs[i].pc)
    /\ reqs' = [reqs EXCEPT ![i].pc = "deferred"]
    /\ UNCHANGED <<unitVars, handlerNil, closed, readerPc, linesRead, pending, inflight,
                   pendingCancelRequest, cancelRequestSignal, nextID,
                   notificationWg, calls, ntfs, emitter>>

\* the deferred function without its delete
WorkerCleanupKeepsEntry(i) ==
    /\ reqs[i].pc = "deferred"
    /\ reqs' = [reqs EXCEPT ![i] = [InvokeCancel(@, "context canceled")
                                       EXCEPT !.pc = "done"]]
    /\ UNCHANGED <<unitVars, handlerNil, closed, readerPc, linesRead, pending,
                   inflight, pendingCancelRequest, cancelRequestSignal, nextID,
                   notificationWg, writeMu, wire, calls, ntfs, emitter, peerRx>>

\* the deferred function: delete(c.inflight, idKey), then cancel(nil)
\* (connection.go:366-372)
WorkerCleanup(i) ==
    /\ reqs[i].pc = "deferred"
    /\ inflight' = MapDel(inflight, reqs[i].key)
    /\ reqs' = [reqs EXCEPT ![i] = [InvokeCancel(@, "context canceled")
                                       EXCEPT !.pc = "done"]]
    /\ UNCHANGED <<unitVars, handlerNil, closed, readerPc, linesRead, pending,
                   pendingCancelRequest, cancelRequestSignal, nextID,
                   notificationWg, writeMu, wire, calls, ntfs, emitter, peerRx>>

(***************************************************************************)
(* Inbound notification workers (connection.go:381-384).                   *)
(***************************************************************************)
\* handleInbound on a notification with every handler error logged
NotificationLoggedAlways(method, code) == code # 0

\* handleInbound on a notification whose handler returned the error code
\* (0 for none): whether the error is logged (connection.go:455-465)
NotificationLogged(method, code) ==
    code # 0 /\ ~(code = CodeMethodNotFound /\ HasPrefix(method, <<"_">>))

\* the code of the error that the handler returns for a notification
NotificationCode(j) ==
    IF handleWithExtensions(ntfs[j].method) = "none" THEN CodeMethodNotFound
    ELSE ScriptCode(ntfs[j].script)

\* handleInbound returns (no reply for a notification), then wg.Done()
NotificationDone(j) ==
    /\ ntfs[j].pc = "handler"
    /\ ntfs[j].script \in {"none", "return", "err", "notFound"}
    /\ ntfs' = [ntfs EXCEPT ![j] =
                  IF handlerNil THEN [@ EXCEPT !.pc = "done"]
                  ELSE [@ EXCEPT
                          !.pc = "done",
                          !.to = handleWithExtensions(ntfs[j].method),
                          !.code = NotificationCode(j),
                          !.logged = NotificationLogged(ntfs[j].method,
                                                        NotificationCode(j))]]
    /\ notificationWg' = notificationWg - 1
    /\ UNCHANGED <<unitVars, handlerNil, closed, readerPc, linesRead, pending, inflight,
                   pendingCancelRequest, cancelRequestSignal, nextID, writeMu,
                   wire, calls, reqs, emitter, peerRx>>

\* the notification handler calls SendRequest with the connection context
NotificationCalls(j) ==
    /\ ~handlerNil
    /\ ntfs[j].pc = "handler" /\ ntfs[j].script = "nested"
    /\ handleWithExtensions(ntfs[j].method) # "none"
    /\ BeginCall(NtfTask(j), TRUE)
    /\ ntfs' = [ntfs EXCEPT ![j].pc = "nested",
                            ![j].to = handleWithExtensions(ntfs[j].method)]
    /\ UNCHANGED <<unitVars, handlerNil, closed, readerPc, linesRead, inflight,
                   pendingCancelRequest, cancelRequestSignal, notificationWg,
                   writeMu, wire, reqs, emitter, peerRx>>

\* the nested call has returned: the handler returns, then wg.Done()
NotificationResumes(j) ==
    /\ ntfs[j].pc = "nested"
    /\ calls[CallOf(NtfTask(j))].pc = "done"
    /\ ntfs' = [ntfs EXCEPT ![j].pc = "done"]
    /\ notificationWg' = notificationWg - 1
    /\ UNCHANGED <<unitVars, handlerNil, closed, readerPc, linesRead, pending, inflight,
                   pendingCancelRequest, cancelRequestSignal, nextID, writeMu,
                   wire, calls, reqs, emitter, peerRx>>

(***************************************************************************)
(* Outbound notifications of the application, SendNotification             *)
(* (connection.go:685-718).                                                *)
(***************************************************************************)
NotesOnly ==
    UNCHANGED <<canon, extensionHandler, queue, cancels, sections, handlerNil, closed, readerPc,
                linesRead, pending, inflight, pendingCancelRequest,
                cancelRequestSignal, nextID, notificationWg, calls, reqs, ntfs,
                emitter>>

\* SendNotification that does not look at its context
SendNotificationAnyContext(ctxDone, paramsOk) ==
    /\ \E n \in Sends :
          /\ notes[n].pc = "unused"
          /\ \A h \in 1..(n - 1) : notes[h].pc # "unused"
          /\ notes' = [notes EXCEPT ![n] =
                IF ~paramsOk
                THEN [pc |-> "done", ctxDone |-> ctxDone,
                      code |-> CodeInvalidParams]
                ELSE [pc |-> "write", ctxDone |-> ctxDone, code |-> 0]]
    /\ UNCHANGED <<writeMu, wire, peerRx>>
    /\ NotesOnly

\* the select on ctx.Done() and prepareNotification (connection.go:686-695,
\* 703-718)
SendNotification(ctxDone, paramsOk) ==
    /\ \E n \in Sends :
          /\ notes[n].pc = "unused"
          /\ \A h \in 1..(n - 1) : notes[h].pc # "unused"
          /\ notes' = [notes EXCEPT ![n] =
                IF ctxDone
                THEN [pc |-> "done", ctxDone |-> TRUE, code |-> CodeInternalError]
                ELSE IF ~paramsOk
                THEN [pc |-> "done", ctxDone |-> FALSE,
                      code |-> CodeInvalidParams]
                ELSE [pc |-> "write", ctxDone |-> FALSE, code |-> 0]]
    /\ UNCHANGED <<writeMu, wire, peerRx>>
    /\ NotesOnly

\* sendMessage(msg) (connection.go:697): the message has no id
NoteWrites(n) ==
    /\ WriteDone(NoteTask(n), notes[n].pc, WireLine("notification", <<>>, 0))
    /\ notes' = [notes EXCEPT ![n].pc = "done"]
    /\ NotesOnly

NoteWriteBlocks(n) ==
    /\ WriteBlocked(NoteTask(n), notes[n].pc)
    /\ notes' = [notes EXCEPT ![n].pc = "writing"]
    /\ NotesOnly

\* the write fails: an internal error (connection.go:697-699)
NoteWriteFails(n) ==
    /\ WriteError(NoteTask(n), notes[n].pc)
    /\ notes' = [notes EXCEPT ![n].pc = "done", ![n].code = CodeInternalError]
    /\ NotesOnly

(***************************************************************************)
(* The cancel emitter, sendCancelRequests (connection.go:557-580), which   *)
(* sends with SendNotification (connection.go:685-701).                    *)
(***************************************************************************)
EmitterWakes ==
    /\ emitter.pc = "select"
    /\ cancelRequestSignal = 1
    /\ cancelRequestSignal' = 0
    /\ emitter' = [emitter EXCEPT !.pc = "drain"]
    /\ UNCHANGED <<unitVars, handlerNil, closed, readerPc, linesRead, pending, inflight,
                   pendingCancelRequest, nextID, notificationWg, writeMu, wire,
                   calls, reqs, ntfs, peerRx>>

EmitterExits ==
    /\ emitter.pc = "select"
    /\ closed
    /\ emitter' = [emitter EXCEPT !.pc = "exited"]
    /\ UNCHANGED <<unitVars, handlerNil, closed, readerPc, linesRead, pending, inflight,
                   pendingCancelRequest, cancelRequestSignal, nextID,
                   notificationWg, writeMu, wire, calls, reqs, ntfs, peerRx>>

\* the inner loop: pop the head of the queue, or go back to the select
EmitterPops ==
    /\ emitter.pc = "drain"
    /\ IF pendingCancelRequest = <<>>
       THEN /\ emitter' = [emitter EXCEPT !.pc = "select"]
            /\ pendingCancelRequest' = pendingCancelRequest
       ELSE /\ emitter' = [pc |-> "write", idKey |-> Head(pendingCancelRequest)]
            /\ pendingCancelRequest' = Tail(pendingCancelRequest)
    /\ UNCHANGED <<unitVars, handlerNil, closed, readerPc, linesRead, pending, inflight,
                   cancelRequestSignal, nextID, notificationWg, writeMu, wire,
                   calls, reqs, ntfs, peerRx>>

\* the $/cancel_request notification: no id, params.requestId = idKey
EmitterWrites ==
    /\ WriteDone(EmitterTask, emitter.pc, WireLine("cancel", emitter.idKey, 0))
    /\ emitter' = [pc |-> "drain", idKey |-> <<>>]
    /\ UNCHANGED <<unitVars, handlerNil, closed, readerPc, linesRead, pending, inflight,
                   pendingCancelRequest, cancelRequestSignal, nextID,
                   notificationWg, calls, reqs, ntfs>>

EmitterWriteBlocks ==
    /\ WriteBlocked(EmitterTask, emitter.pc)
    /\ emitter' = [emitter EXCEPT !.pc = "writing"]
    /\ UNCHANGED <<unitVars, handlerNil, closed, readerPc, linesRead, pending, inflight,
                   pendingCancelRequest, cancelRequestSignal, nextID,
                   notificationWg, calls, reqs, ntfs>>

\* the error is logged at debug level (connection.go:574-576)
EmitterWriteFails ==
    /\ WriteError(EmitterTask, emitter.pc)
    /\ emitter' = [pc |-> "drain", idKey |-> <<>>]
    /\ UNCHANGED <<unitVars, handlerNil, closed, readerPc, linesRead, pending, inflight,
                   pendingCancelRequest, cancelRequestSignal, nextID,
                   notificationWg, calls, reqs, ntfs>>

(***************************************************************************)
(* The runs of the model.  The peer sends at most MaxLines lines; the      *)
(* calls and request workers of a run are at most MaxTasks, and a handler  *)
(* that will call SendRequest is started only when its call fits too.      *)
(***************************************************************************)
\* the calls and request workers started so far
TaskCount == nextID + Cardinality(Spawned(reqs))

\* the handlers that have yet to make their call
Reserved ==
    Cardinality({i \in Requests : reqs[i].pc = "handler" /\ reqs[i].script = "nested"})
    + Cardinality({j \in Notifications :
                      ntfs[j].pc = "handler" /\ ntfs[j].script = "nested"})

\* there is room for more calls and request workers, nested of them calls
Room(maxTasks, tasks, nested) ==
    /\ TaskCount + Reserved + tasks <= maxTasks
    /\ nextID + Reserved + nested <= MaxCalls

NestedCalls(script) == IF script = "nested" THEN 1 ELSE 0

\* the peer has lines left to send
Reads(maxLines) == linesRead < maxLines

ReaderStep ==
    \/ Reads(MaxLines) /\ ReadSkippedLine
    \/ \E raw \in ResponseIdTexts, payload \in Payloads :
          Reads(MaxLines) /\ ReadResponse(raw, payload)
    \/ \E raw \in RequestIdTexts :
          \E script \in (IF handlerNil THEN {"none"} ELSE RequestScripts) :
             /\ Reads(MaxLines)
             /\ Room(MaxTasks, 1 + NestedCalls(script), NestedCalls(script))
             /\ ReadRequest(raw, LoadMethod, script)
    \/ \E script \in (IF handlerNil THEN {"none"} ELSE NotificationScripts) :
          /\ Reads(MaxLines)
          /\ Room(MaxTasks, NestedCalls(script), NestedCalls(script))
          /\ ReadNotification(LoadMethod, script)
    \/ \E raw \in CancelIdTexts : Reads(MaxLines) /\ ReadCancelRequest(raw)
    \/ ReadEOF

CallStep ==
    \/ \E paramsOk \in BOOLEAN : Room(MaxTasks, 1, 1) /\ SendRequest(paramsOk)
    \/ \E k \in Calls :
          \/ CallWrites(k) \/ CallWriteBlocks(k) \/ CallWriteFails(k)
          \/ WaitGotResponse(k) \/ WaitCtxDone(k) \/ WaitConnDone(k)
          \/ SendCancelCheckDone(k) \/ CancelAndReturn(k)
          \/ DrainAndReturn(k)
          \/ \E how \in {"canceled", "deadline"} : EndContext(k, how)

RequestWorkerStep ==
    \E i \in Requests :
        \/ HandlerReturn(i) \/ HandlerCalls(i) \/ HandlerResumes(i)
        \/ ReplyWrites(i) \/ ReplyWriteBlocks(i) \/ ReplyWriteFails(i)
        \/ WorkerCleanup(i)

NotificationWorkerStep ==
    \E j \in Notifications :
        NotificationDone(j) \/ NotificationCalls(j) \/ NotificationResumes(j)

EmitterStep ==
    \/ EmitterWakes \/ EmitterExits \/ EmitterPops
    \/ EmitterWrites \/ EmitterWriteBlocks \/ EmitterWriteFails

Next ==
    \/ ReaderStep
    \/ CallStep
    \/ RequestWorkerStep
    \/ NotificationWorkerStep
    \/ EmitterStep

Spec == Init /\ [][Next]_vars

(***************************************************************************)
(* The runs in which handlers call SendRequest: a handler is installed,    *)
(* the peer sends requests and notifications whose handlers make a nested  *)
(* call, answers the calls with results, reads everything it is sent, and  *)
(* may close the connection.  There are no cancellations in these runs.    *)
(***************************************************************************)
MaxNestedLines == 4    \* lines the peer sends per run
MaxNestedTasks == 3    \* calls and request workers together, per run

NestedInit == Init /\ ~handlerNil

NestedReaderStep ==
    \/ \E raw \in {<<"1", "e", "0">>, <<"2", ".", "0">>} :
          Reads(MaxNestedLines) /\ ReadResponse(raw, "result")
    \/ /\ Reads(MaxNestedLines)
       /\ Room(MaxNestedTasks, 2, 1)
       /\ ReadRequest(<<"1", "e", "0">>, LoadMethod, "nested")
    \/ \E script \in NotificationScripts :
          /\ Reads(MaxNestedLines)
          /\ Room(MaxNestedTasks, NestedCalls(script), NestedCalls(script))
          /\ ReadNotification(LoadMethod, script)
    \/ ReadEOF

\* the steps of the connection's own goroutines in these runs
NestedProgramStep ==
    \/ \E k \in Calls :
          \/ CallWrites(k) \/ WaitGotResponse(k) \/ WaitConnDone(k)
          \/ DrainAndReturn(k)
    \/ \E i \in Requests :
          \/ HandlerCalls(i) \/ HandlerResumes(i) \/ ReplyWrites(i)
          \/ WorkerCleanup(i)
    \/ NotificationWorkerStep

NestedNext == NestedReaderStep \/ NestedProgramStep

NestedSpec == NestedInit /\ [][NestedNext]_vars

(***************************************************************************)
(* The runs of handleInbound under the handler of a domain connection,     *)
(* handleWithExtensions: the peer sends malformed lines, requests and      *)
(* notifications for methods of the generated dispatch and for extension   *)
(* methods, never answers the calls, may stop accepting what is written to *)
(* it, and may close the connection.  The domain object has an extension   *)
(* handler or has none; its methods return a result, an error, method not  *)
(* found, or a result that json.Marshal rejects.                           *)
(***************************************************************************)
MaxInboundLines == 2   \* lines the peer sends per run
MaxInboundTasks == 2   \* calls and request workers together, per run

InboundMethods == {LoadMethod, VendorMethod}
InboundRequestScripts == {"ok", "err", "notFound", "unmarshalable"}
InboundNotificationScripts == {"return", "err", "notFound"}

InboundInit ==
    /\ ConnectionInit
    /\ canon = NoCanon /\ extensionHandler \in BOOLEAN /\ queue = NoQueue

InboundReaderStep ==
    \/ Reads(MaxInboundLines) /\ ReadSkippedLine
    \/ \E raw \in RequestIdTexts, method \in InboundMethods :
          \E script \in (IF handlerNil THEN {"none"} ELSE InboundRequestScripts) :
             /\ Reads(MaxInboundLines)
             /\ Room(MaxInboundTasks, 1, 0)
             /\ ReadRequest(raw, method, script)
    \/ \E method \in InboundMethods :
          \E script \in (IF handlerNil THEN {"none"}
                         ELSE InboundNotificationScripts) :
             /\ Reads(MaxInboundLines)
             /\ ReadNotification(method, script)
    \/ ReadEOF

\* the steps of the application and of the connection's goroutines in
\* these runs
InboundProgramStep ==
    \/ Room(MaxInboundTasks, 1, 1) /\ SendRequest(TRUE)
    \/ \E k \in Calls : CallWrites(k) \/ CallWriteFails(k) \/ WaitConnDone(k)
    \/ \E i \in Requests :
          \/ HandlerReturn(i) \/ ReplyWrites(i) \/ ReplyWriteFails(i)
          \/ WorkerCleanup(i)
    \/ \E j \in Notifications : NotificationDone(j)

InboundNext == InboundReaderStep \/ InboundProgramStep

InboundSpec == InboundInit /\ [][InboundNext]_vars

(***************************************************************************)
(* The runs of the outbound side: the application makes requests and sends *)
(* notifications, with contexts that are live or done, and cancels its     *)
(* requests; the peer answers with ids that are pending or not, sends a    *)
(* request of its own, may cease to read or close its read side, and may   *)
(* close the connection.                                                   *)
(***************************************************************************)
MaxOutboundLines == 2   \* lines the peer sends per run
MaxOutboundTasks == 2   \* calls and request workers together, per run

OutboundInit == Init /\ ~handlerNil

\* how the application ends the context of a call: cancel, the deadline,
\* cancel with a cause that wraps context.Canceled (errors_test.go:10), and
\* cancel with a cause of its own
ContextEnds == {"canceled", "deadline", "wrapped", "other"}

OutboundReaderStep ==
    \/ \E raw \in ResponseIdTexts, payload \in Payloads :
          Reads(MaxOutboundLines) /\ ReadResponse(raw, payload)
    \/ /\ Reads(MaxOutboundLines)
       /\ Room(MaxOutboundTasks, 1, 0)
       /\ ReadRequest(<<"1", "e", "0">>, LoadMethod, "ok")
    \/ ReadEOF

OutboundCallStep ==
    \/ \E paramsOk \in BOOLEAN :
          Room(MaxOutboundTasks, 1, 1) /\ SendRequest(paramsOk)
    \/ \E k \in Calls :
          \/ CallWrites(k) \/ CallWriteBlocks(k) \/ CallWriteFails(k)
          \/ WaitGotResponse(k) \/ WaitCtxDone(k) \/ WaitConnDone(k)
          \/ SendCancelCheckDone(k) \/ CancelAndReturn(k)
          \/ DrainAndReturn(k)
          \/ \E how \in ContextEnds : EndContext(k, how)

OutboundNoteStep ==
    \/ \E ctxDone, paramsOk \in BOOLEAN : SendNotification(ctxDone, paramsOk)
    \/ \E n \in Sends : NoteWrites(n) \/ NoteWriteBlocks(n) \/ NoteWriteFails(n)

OutboundWorkerStep ==
    \E i \in Requests :
        \/ HandlerReturn(i)
        \/ ReplyWrites(i) \/ ReplyWriteBlocks(i) \/ ReplyWriteFails(i)
        \/ WorkerCleanup(i)

OutboundNext ==
    \/ OutboundReaderStep
    \/ OutboundCallStep
    \/ OutboundNoteStep
    \/ OutboundWorkerStep
    \/ EmitterStep

OutboundSpec == OutboundInit /\ [][OutboundNext]_vars

(***************************************************************************)
(* Runs of the inbound requests and their cancellation: the peer sends     *)
(* requests and $/cancel_request notifications and may cease to read; the  *)
(* workers run the handlers, reply and clean up.                           *)
(***************************************************************************)
MaxInflightLines == 4   \* lines the peer sends per run
MaxInflightTasks == 2   \* request workers per run

InflightReaderStep ==
    \/ \E raw \in RequestIdTexts :
          \E script \in (IF handlerNil THEN {"none"} ELSE {"ok", "waitCtx"}) :
             /\ Reads(MaxInflightLines)
             /\ Room(MaxInflightTasks, 1, 0)
             /\ ReadRequest(raw, LoadMethod, script)
    \/ \E raw \in CancelIdTexts :
          Reads(MaxInflightLines) /\ ReadCancelRequest(raw)
    \/ ReadEOF

InflightWorkerStep ==
    \E i \in Requests :
        \/ HandlerReturn(i)
        \/ ReplyWrites(i) \/ ReplyWriteBlocks(i) \/ ReplyWriteFails(i)
        \/ WorkerCleanup(i)

InflightNext == InflightReaderStep \/ InflightWorkerStep

InflightSpec == Init /\ [][InflightNext]_vars

\* the worker's goroutine is scheduled, and c.mu is held only for the map
\* operations (connection.go:360-362, 367-369, 430-432): a worker whose
\* handleInbound has returned runs its deferred function
InflightFairness == \A i \in Requests : WF_vars(WorkerCleanup(i))

InflightFairSpec == InflightSpec /\ InflightFairness

(***************************************************************************)
(* canonicalJSONRPCIDKey on its own (connection.go:98-134): two raw ids    *)
(* are chosen and the function is applied to each.  The ids are every JSON *)
(* number literal of at most MaxIdLen characters over IdAlphabet, number   *)
(* literals at the limits of magnitude and length, and ids of the other    *)
(* kinds.                                                                  *)
(***************************************************************************)
MaxIdLen == 4      \* characters of the generated number literals

IdAlphabet == {"0", "1", "-", ".", "e"}

\* the JSON number grammar (RFC 8259, section 6), read one character at a
\* time: the position in the grammar, the sign, the digits of the integer
\* and fraction parts, the number of fraction digits, the exponent
NumberStart ==
    [q |-> "start", neg |-> FALSE, sig |-> <<>>, frac |-> 0, eneg |-> FALSE,
     exp |-> 0]

NumberChar(st, ch) ==
    IF st.q \in {"start", "minus"} THEN
        IF ch = "-" /\ st.q = "start" THEN [st EXCEPT !.q = "minus", !.neg = TRUE]
        ELSE IF ch = "0" THEN [st EXCEPT !.q = "zero", !.sig = <<"0">>]
        ELSE IF isASCIIDigit(ch) THEN [st EXCEPT !.q = "int", !.sig = <<ch>>]
        ELSE [st EXCEPT !.q = "bad"]
    ELSE IF st.q \in {"zero", "int", "frac"} /\ ch \in {"e", "E"}
        THEN [st EXCEPT !.q = "e"]
    ELSE IF st.q \in {"zero", "int"} /\ ch = "." THEN [st EXCEPT !.q = "dot"]
    ELSE IF st.q = "int" /\ isASCIIDigit(ch) THEN [st EXCEPT !.sig = Append(@, ch)]
    ELSE IF st.q \in {"dot", "frac"} /\ isASCIIDigit(ch)
        THEN [st EXCEPT !.q = "frac", !.sig = Append(@, ch), !.frac = @ + 1]
    ELSE IF st.q = "e" /\ ch \in {"+", "-"}
        THEN [st EXCEPT !.q = "esign", !.eneg = (ch = "-")]
    ELSE IF st.q \in {"e", "esign", "exp"} /\ isASCIIDigit(ch)
        THEN [st EXCEPT !.q = "exp",
                        !.exp = IF @ > 100000 THEN @ ELSE 10 * @ + DigitValue(ch)]
    ELSE [st EXCEPT !.q = "bad"]

RECURSIVE NumberScan(_, _, _)
NumberScan(s, i, st) ==
    IF i > Len(s) THEN st ELSE NumberScan(s, i + 1, NumberChar(st, s[i]))

NumberOf(raw) == NumberScan(raw, 1, NumberStart)

IsJSONNumber(raw) == NumberOf(raw).q \in {"zero", "int", "frac", "exp"}

\* the number a literal denotes is Significand * 10^Exponent10, negated if
\* Negative
Significand(raw) == TrimLeftZeros(NumberOf(raw).sig)
ExponentOf(raw) == IF NumberOf(raw).eneg THEN -NumberOf(raw).exp ELSE NumberOf(raw).exp
Exponent10(raw) == ExponentOf(raw) - NumberOf(raw).frac
Negative(raw) == NumberOf(raw).neg /\ Significand(raw) # <<>>

\* m * 10^d = n on decimal digit strings without leading zeros, d >= 0
ScaledEqual(m, d, n) == d <= Len(n) /\ m \o Repeat("0", d) = n

\* two number literals denote the same rational
SameRational(a, b) ==
    IF Significand(a) = <<>> \/ Significand(b) = <<>>
    THEN Significand(a) = Significand(b)
    ELSE /\ Negative(a) = Negative(b)
         /\ IF Exponent10(a) >= Exponent10(b)
            THEN ScaledEqual(Significand(a), Exponent10(a) - Exponent10(b),
                             Significand(b))
            ELSE ScaledEqual(Significand(b), Exponent10(b) - Exponent10(a),
                             Significand(a))

GeneratedIdTexts ==
    {t \in UNION {[1..n -> IdAlphabet] : n \in 1..MaxIdLen} : IsJSONNumber(t)}

BoundaryIdTexts == {
    <<"1", "e", "4", "0", "9", "5">>,
    <<"-", "1", "e", "4", "0", "9", "5">>,
    <<"1", "e", "4", "0", "9", "6">>,
    <<"1", "e", "-", "4", "0", "9", "4">>,
    <<"-", "1", "e", "-", "4", "0", "9", "4">>,
    <<"1", "e", "-", "4", "0", "9", "5">>,
    <<"0", "e", "4", "0", "9", "7">>,
    <<"1", "e", "4", "0", "9", "7">>,
    <<"9", "0", "0", "7", "1", "9", "9", "2", "5", "4", "7", "4", "0", "9", "9", "2">>,
    <<"9", "0", "0", "7", "1", "9", "9", "2", "5", "4", "7", "4", "0", "9", "9", "3">>
}

OtherIdTexts == {
    <<"n", "u", "l", "l">>,
    <<"\"", "1", "\"">>,
    <<"\"", "n", "u", "l", "l", "\"">>,
    <<"\"", "a", "\"">>,
    <<"\"", "\\", "u", "0", "0", "6", "1", "\"">>,
    <<"t", "r", "u", "e">>,
    <<"\"", "<", "\"">>,
    <<"\"", "\\", "u", "0", "0", "3", "c", "\"">>
}

CanonIdTexts == GeneratedIdTexts \cup BoundaryIdTexts \cup OtherIdTexts

CanonInit ==
    /\ ConnectionInit /\ ~handlerNil /\ extensionHandler = FALSE
    /\ queue = NoQueue
    /\ canon \in [pc : {"chosen"}, a : CanonIdTexts, b : CanonIdTexts]

\* canonicalJSONRPCIDKey applied to both ids
Canonicalize ==
    /\ canon.pc = "chosen"
    /\ canon' = [pc |-> "done", a |-> canon.a, b |-> canon.b,
                 keyA |-> canonicalJSONRPCIDKey(canon.a),
                 keyB |-> canonicalJSONRPCIDKey(canon.b)]
    /\ UNCHANGED <<connectionVars, extensionHandler, queue, notes, cancels, sections>>

CanonNext == Canonicalize

CanonSpec == CanonInit /\ [][CanonNext]_vars

(***************************************************************************)
(* unboundedQueue (connection.go:726-786) on its own: producers push their *)
(* items, consumers pop until pop reports the queue closed, and the queue  *)
(* is closed once the producers have finished ("close signals that no more *)
(* items will be pushed").  Lock, the statements under q.mu, Signal and    *)
(* Broadcast are steps of their own; cond.Wait releases q.mu and parks the *)
(* consumer until a Signal or Broadcast wakes it, after which it locks     *)
(* q.mu again.  popped is the order in which pop took the items.           *)
(***************************************************************************)
MaxProducers == 2   \* goroutines that push
MaxItems == 2       \* items each producer pushes
MaxConsumers == 2   \* goroutines that pop

Producers == 1..MaxProducers
Consumers == 1..MaxConsumers

Unlocked == <<"none">>
Producer(p) == <<"producer", p>>
Consumer(c) == <<"consumer", c>>
Closer == <<"closer">>

\* newUnboundedQueue (connection.go:740-744)
newUnboundedQueue ==
    [items |-> <<>>, closed |-> FALSE, mu |-> Unlocked, waiters |-> {},
     popped |-> <<>>,
     producer |-> [p \in Producers |-> [pc |-> "idle", n |-> 0]],
     consumer |-> [c \in Consumers |-> [pc |-> "idle"]],
     closer |-> "idle"]

QueueInit ==
    /\ ConnectionInit /\ ~handlerNil
    /\ canon = NoCanon /\ extensionHandler = FALSE
    /\ queue = newUnboundedQueue

QueueOnly == UNCHANGED <<connectionVars, canon, extensionHandler, notes, cancels, sections>>

\* push: q.mu.Lock() (connection.go:748)
PushLock(p) ==
    /\ queue.producer[p].pc = "idle" /\ queue.producer[p].n < MaxItems
    /\ queue.mu = Unlocked
    /\ queue' = [queue EXCEPT !.mu = Producer(p), !.producer[p].pc = "locked"]
    /\ QueueOnly

\* push: append, q.mu.Unlock() (connection.go:749-750)
PushAppend(p) ==
    /\ queue.producer[p].pc = "locked"
    /\ queue' = [queue EXCEPT
                   !.items = Append(@, [producer |-> p,
                                        n |-> queue.producer[p].n + 1]),
                   !.mu = Unlocked,
                   !.producer[p].n = @ + 1,
                   !.producer[p].pc = "signal"]
    /\ QueueOnly

\* push: q.cond.Signal() wakes one waiter, if there is one
\* (connection.go:751)
PushSignal(p) ==
    /\ queue.producer[p].pc = "signal"
    /\ \/ /\ queue.waiters = {}
          /\ queue' = [queue EXCEPT !.producer[p].pc = "idle"]
       \/ \E w \in queue.waiters :
             queue' = [queue EXCEPT !.producer[p].pc = "idle",
                                    !.waiters = @ \ {w},
                                    !.consumer[w].pc = "woken"]
    /\ QueueOnly

\* pop: q.mu.Lock(), at the call or on the return of cond.Wait
\* (connection.go:757, 760)
PopLock(c) ==
    /\ queue.consumer[c].pc \in {"idle", "woken"}
    /\ queue.mu = Unlocked
    /\ queue' = [queue EXCEPT !.mu = Consumer(c), !.consumer[c].pc = "locked"]
    /\ QueueOnly

\* pop: nothing to take and not closed, q.cond.Wait() (connection.go:759-761)
PopWait(c) ==
    /\ queue.consumer[c].pc = "locked"
    /\ queue.items = <<>> /\ ~queue.closed
    /\ queue' = [queue EXCEPT !.mu = Unlocked,
                                !.waiters = @ \cup {c},
                                !.consumer[c].pc = "waiting"]
    /\ QueueOnly

\* pop that reports a closed queue without looking at the items
PopClosedUndrained(c) ==
    /\ queue.consumer[c].pc = "locked"
    /\ queue.closed
    /\ queue' = [queue EXCEPT !.mu = Unlocked, !.consumer[c].pc = "done"]
    /\ QueueOnly

\* pop: closed and empty, return the zero value and false; the consumer
\* stops (connection.go:762-765)
PopClosed(c) ==
    /\ queue.consumer[c].pc = "locked"
    /\ queue.items = <<>> /\ queue.closed
    /\ queue' = [queue EXCEPT !.mu = Unlocked, !.consumer[c].pc = "done"]
    /\ QueueOnly

\* the item pop takes and the items it leaves, taking the newest item
QueueTakeLast(items) ==
    [item |-> items[Len(items)], items |-> SubSeq(items, 1, Len(items) - 1)]

\* the item pop takes and the items it leaves (connection.go:766-767)
QueueTake(items) == [item |-> Head(items), items |-> Tail(items)]

\* pop: take an item and return it; the consumer calls pop again
\* (connection.go:766-768)
PopTake(c) ==
    /\ queue.consumer[c].pc = "locked"
    /\ queue.items # <<>>
    /\ queue' = [queue EXCEPT
                   !.items = QueueTake(queue.items).items,
                   !.popped = Append(@, [item |-> QueueTake(queue.items).item,
                                         by |-> c]),
                   !.mu = Unlocked,
                   !.consumer[c].pc = "idle"]
    /\ QueueOnly

ProducersDone ==
    \A p \in Producers :
        queue.producer[p].pc = "idle" /\ queue.producer[p].n = MaxItems

\* close: q.mu.Lock() (connection.go:774), once the producers are done
CloseLock ==
    /\ queue.closer = "idle" /\ ProducersDone
    /\ queue.mu = Unlocked
    /\ queue' = [queue EXCEPT !.mu = Closer, !.closer = "locked"]
    /\ QueueOnly

\* close: q.closed = true, q.mu.Unlock() (connection.go:775-776)
CloseSet ==
    /\ queue.closer = "locked"
    /\ queue' = [queue EXCEPT !.closed = TRUE, !.mu = Unlocked,
                                !.closer = "broadcast"]
    /\ QueueOnly

\* close that wakes one waiter only, as Signal does
CloseSignal ==
    /\ queue.closer = "broadcast"
    /\ \/ /\ queue.waiters = {}
          /\ queue' = [queue EXCEPT !.closer = "done"]
       \/ \E w \in queue.waiters :
             queue' = [queue EXCEPT !.closer = "done",
                                    !.waiters = @ \ {w},
                                    !.consumer[w].pc = "woken"]
    /\ QueueOnly

\* close: q.cond.Broadcast() wakes every waiter (connection.go:777)
CloseBroadcast ==
    /\ queue.closer = "broadcast"
    /\ queue' = [queue EXCEPT
                   !.closer = "done",
                   !.waiters = {},
                   !.consumer = [c \in Consumers |->
                                   IF c \in queue.waiters
                                   THEN [pc |-> "woken"] ELSE queue.consumer[c]]]
    /\ QueueOnly

QueueNext ==
    \/ \E p \in Producers : PushLock(p) \/ PushAppend(p) \/ PushSignal(p)
    \/ \E c \in Consumers : PopLock(c) \/ PopWait(c) \/ PopClosed(c) \/ PopTake(c)
    \/ CloseLock \/ CloseSet \/ CloseBroadcast

QueueSpec == QueueInit /\ [][QueueNext]_vars

\* The goroutines of the queue under the Go scheduler: a goroutine that can
\* run does run, and a goroutine in Lock gets the mutex although others
\* take it in between (sync.Mutex hands the mutex to a waiter that has
\* starved).  Whether close is ever called is left open: the producers'
\* owner may never call it.
QueueFairness ==
    /\ \A p \in Producers :
          SF_vars(PushLock(p)) /\ WF_vars(PushAppend(p)) /\ WF_vars(PushSignal(p))
    /\ \A c \in Consumers :
          /\ SF_vars(PopLock(c))
          /\ WF_vars(PopWait(c)) /\ WF_vars(PopClosed(c)) /\ WF_vars(PopTake(c))
    /\ WF_vars(CloseSet) /\ WF_vars(CloseBroadcast)

QueueFairSpec == QueueSpec /\ QueueFairness

(***************************************************************************)
(* The cancel queue on its own (connection.go:557-611, 613-644): one       *)
(* application goroutine issues requests and cancels each of them, more    *)
(* of them than the queue takes, while the sendCancelRequests goroutine    *)
(* drains the queue at its own pace; the connection may close.             *)
(***************************************************************************)
MaxCancelCalls == 1027  \* requests the application issues and cancels
MaxCancelPops == 2      \* ids the sendCancelRequests goroutine takes per run

CancelsOnly == UNCHANGED <<connectionVars, canon, extensionHandler, queue, notes, sections>>

\* SendRequest up to waitForResponse (connection.go:496-519): the next id,
\* its pending entry, its line written
CancelsSendRequest ==
    /\ cancels.call.pc \in {"none", "returned"}
    /\ ~cancels.closed
    /\ cancels.nextID < MaxCancelCalls
    /\ cancels' = [cancels EXCEPT
                     !.nextID = @ + 1,
                     !.pending = @ \cup {DecimalText(cancels.nextID + 1)},
                     !.call = [pc |-> "wait", id |-> cancels.nextID + 1,
                               code |-> 0]]
    /\ CancelsOnly

\* waitForResponse: the case <-ctx.Done() of a cancelled context
\* (connection.go:629-631)
CancelsWaitCtxDone ==
    /\ cancels.call.pc = "wait"
    /\ cancels' = [cancels EXCEPT !.call.pc = "sendCancel"]
    /\ CancelsOnly

\* sendCancelRequest appending whatever the length of the queue
sendCancelRequestUnbounded(idKey) ==
    /\ cancels.call.pc = "sendCancel"
    /\ cancels' =
         IF TrimSpace(idKey) = <<>> \/ cancels.closed
         THEN [cancels EXCEPT !.call.pc = "cleanup"]
         ELSE [cancels EXCEPT
                 !.pendingCancelRequest = Append(@, idKey),
                 !.cancelRequestSignal = 1,
                 !.call.pc = "cleanup"]
    /\ CancelsOnly

\* sendCancelRequest (connection.go:582-611): nothing for an empty key or a
\* closed connection; under c.mu the id is appended unless the queue holds
\* maxPendingCancelRequests ids, when it is dropped and logged; after an
\* append, the send on cancelRequestSignal that takes the default case when
\* the channel is full
sendCancelRequest(idKey) ==
    /\ cancels.call.pc = "sendCancel"
    /\ cancels' =
         IF TrimSpace(idKey) = <<>> \/ cancels.closed
         THEN [cancels EXCEPT !.call.pc = "cleanup"]
         ELSE IF Len(cancels.pendingCancelRequest) >= maxPendingCancelRequests
         THEN [cancels EXCEPT !.dropped = @ + 1, !.call.pc = "cleanup"]
         ELSE [cancels EXCEPT
                 !.pendingCancelRequest = Append(@, idKey),
                 !.cancelRequestSignal = 1,
                 !.call.pc = "cleanup"]
    /\ CancelsOnly

\* waitForResponse after sendCancelRequest (connection.go:632-639):
\* cleanupPending and the mapped cause of the cancelled context
CancelsReturn ==
    /\ cancels.call.pc = "cleanup"
    /\ cancels' = [cancels EXCEPT
                     !.pending = @ \ {DecimalText(cancels.call.id)},
                     !.call.pc = "returned",
                     !.call.code = toReqErr("context canceled")]
    /\ CancelsOnly

\* sendCancelRequests (connection.go:557-580): the select takes a token
CancelsEmitterWakes ==
    /\ cancels.emitter.pc = "select" /\ ~cancels.closed
    /\ cancels.cancelRequestSignal = 1
    /\ cancels' = [cancels EXCEPT !.cancelRequestSignal = 0,
                                  !.emitter.pc = "drain"]
    /\ CancelsOnly

\* the select takes Done
CancelsEmitterExits ==
    /\ cancels.emitter.pc = "select" /\ cancels.closed
    /\ cancels' = [cancels EXCEPT !.emitter.pc = "exited"]
    /\ CancelsOnly

\* the inner loop: back to the select on an empty queue, else the head is
\* taken off the queue
CancelsEmitterPops ==
    /\ cancels.emitter.pc = "drain"
    /\ IF cancels.pendingCancelRequest = <<>>
       THEN cancels' = [cancels EXCEPT !.emitter.pc = "select"]
       ELSE /\ cancels.emitter.popped < MaxCancelPops
            /\ cancels' = [cancels EXCEPT
                             !.pendingCancelRequest = Tail(@),
                             !.emitter = [pc |-> "write",
                                          idKey |-> Head(cancels.pendingCancelRequest),
                                          popped |-> @.popped + 1]]
    /\ CancelsOnly

\* SendNotification of the $/cancel_request has returned, its error logged
\* if any; a write to a peer that has ceased to read does not return
CancelsEmitterWrites ==
    /\ cancels.emitter.pc = "write"
    /\ cancels' = [cancels EXCEPT
                     !.written = IF cancels.closed THEN @ ELSE @ + 1,
                     !.emitter.pc = "drain", !.emitter.idKey = <<>>]
    /\ CancelsOnly

\* c.cancel: the reader has ended
CancelsClose ==
    /\ ~cancels.closed /\ cancels.nextID > 0
    /\ cancels' = [cancels EXCEPT !.closed = TRUE]
    /\ CancelsOnly

CancelsNext ==
    \/ CancelsSendRequest
    \/ CancelsWaitCtxDone
    \/ sendCancelRequest(DecimalText(cancels.call.id))
    \/ CancelsReturn
    \/ CancelsEmitterWakes
    \/ CancelsEmitterExits
    \/ CancelsEmitterPops
    \/ CancelsEmitterWrites
    \/ CancelsClose

CancelsInit == Init /\ ~handlerNil

CancelsSpec == CancelsInit /\ [][CancelsNext]_vars

(***************************************************************************)
(* The two mutexes.  Each goroutine is the sequence of its operations in   *)
(* the order of the source: an operation is a Lock or an Unlock of c.mu,   *)
(* an access to the data c.mu guards, a Lock or an Unlock of c.writeMu, an *)
(* operation that may block on the peer, on the application or on another  *)
(* goroutine, or one that is local.  After an operation the goroutine goes *)
(* on with one of the operations named as next, 0 being its end.           *)
(***************************************************************************)
Op(op, next) == [op |-> op, next |-> next]

\* receive (connection.go:329-388), with handleResponse (394-411), the
\* registration of a request (358-375), handleCancelRequest (413-438) and
\* the spawn of a notification worker (379-384)
receiveCode ==
    << Op("scan", {2, 6, 10, 14, 0}),
       Op("lock", {3}), Op("data", {4}), Op("unlock", {5, 1}), Op("send", {1}),
       Op("lock", {7}), Op("data", {8}), Op("unlock", {9}), Op("spawn", {1}),
       Op("lock", {11}), Op("data", {12}), Op("unlock", {13, 1}),
       Op("cancel", {1}),
       Op("spawn", {1}) >>

\* SendRequest (connection.go:496-534) with sendMessage (480-492),
\* waitForResponse (613-644), sendCancelRequest (582-611) and
\* cleanupPending (646-650)
SendRequestCode ==
    << Op("lock", {2}), Op("data", {3}), Op("unlock", {4}),
       Op("writeLock", {5}), Op("write", {6}), Op("writeUnlock", {7, 15}),
       Op("wait", {8, 12, 18}),
       Op("lock", {9}), Op("data", {10}), Op("unlock", {11, 12}),
       Op("signal", {12}),
       Op("lock", {13}), Op("data", {14}), Op("unlock", {0}),
       Op("lock", {16}), Op("data", {17}), Op("unlock", {0}),
       Op("drain", {0}) >>

\* the goroutine of an inbound request (connection.go:365-374) with
\* handleInbound (440-478) and sendMessage (480-492)
workerCode ==
    << Op("handler", {2}),
       Op("writeLock", {3}), Op("write", {4}), Op("writeUnlock", {5}),
       Op("lock", {6}), Op("data", {7}), Op("unlock", {8}),
       Op("cancel", {0}) >>

\* sendCancelRequests with SendNotification called before c.mu is unlocked
sendCancelRequestsCodeLocked ==
    << Op("select", {2, 0}),
       Op("lock", {3}), Op("data", {5, 4}), Op("unlock", {1}),
       Op("writeLock", {6}), Op("write", {7}), Op("writeUnlock", {8}),
       Op("unlock", {2}) >>

\* sendCancelRequests (connection.go:557-580) with SendNotification
\* (685-701) and sendMessage (480-492)
sendCancelRequestsCode ==
    << Op("select", {2, 0}),
       Op("lock", {3}), Op("data", {4}), Op("unlock", {1, 5}),
       Op("writeLock", {6}), Op("write", {7}), Op("writeUnlock", {2}) >>

Goroutines == {"receive", "SendRequest", "worker", "sendCancelRequests"}

Code(t) ==
    CASE t = "receive" -> receiveCode
      [] t = "SendRequest" -> SendRequestCode
      [] t = "worker" -> workerCode
      [] OTHER -> sendCancelRequestsCode

\* the operation goroutine t is at
At(t) ==
    IF sections.pc[t] = 0 THEN Op("end", {}) ELSE Code(t)[sections.pc[t]]

\* the operations that wait for the peer, the application or a goroutine
BlockingOps == {"scan", "send", "write", "wait", "drain", "handler", "select"}

LocalOps == {"spawn", "cancel", "signal"}

SectionsOnly ==
    UNCHANGED <<connectionVars, canon, extensionHandler, queue, notes, cancels>>

\* goroutine t goes on after its operation
Goes(t, holder, writer) ==
    \E next \in At(t).next :
        sections' = [mu |-> holder, writeMu |-> writer,
                     pc |-> [sections.pc EXCEPT ![t] = next]]

MutexLock(t) ==
    /\ At(t).op = "lock" /\ sections.mu = "free"
    /\ Goes(t, t, sections.writeMu)
    /\ SectionsOnly

MutexUnlock(t) ==
    /\ At(t).op = "unlock" /\ sections.mu = t
    /\ Goes(t, "free", sections.writeMu)
    /\ SectionsOnly

\* a read or an update of c.pending, c.inflight or c.pendingCancelRequest
GuardedData(t) ==
    /\ At(t).op = "data"
    /\ Goes(t, sections.mu, sections.writeMu)
    /\ SectionsOnly

WriterLock(t) ==
    /\ At(t).op = "writeLock" /\ sections.writeMu = "free"
    /\ Goes(t, sections.mu, t)
    /\ SectionsOnly

WriterUnlock(t) ==
    /\ At(t).op = "writeUnlock" /\ sections.writeMu = t
    /\ Goes(t, sections.mu, "free")
    /\ SectionsOnly

\* the operation returns; until then the goroutine stays at it
BlockingReturns(t) ==
    /\ At(t).op \in BlockingOps
    /\ Goes(t, sections.mu, sections.writeMu)
    /\ SectionsOnly

LocalStep(t) ==
    /\ At(t).op \in LocalOps
    /\ Goes(t, sections.mu, sections.writeMu)
    /\ SectionsOnly

SectionsNext ==
    \E t \in Goroutines :
        \/ MutexLock(t) \/ MutexUnlock(t) \/ GuardedData(t)
        \/ WriterLock(t) \/ WriterUnlock(t)
        \/ BlockingReturns(t) \/ LocalStep(t)

SectionsInit == Init /\ ~handlerNil

SectionsSpec == SectionsInit /\ [][SectionsNext]_vars

(***************************************************************************)
(* Requests whose id is not a string, a number or null (connection.go:     *)
(* 352-357): the peer sends requests with such ids, names them in          *)
(* $/cancel_request, and ends the input.                                   *)
(***************************************************************************)
MaxRawIdLines == 3     \* lines the peer sends per run
MaxRawIdTasks == 2     \* request workers per run

RawIdReaderStep ==
    \/ \E raw \in UncanonicalIdTexts :
          \E script \in (IF handlerNil THEN {"none"} ELSE {"ok", "waitCtx"}) :
             /\ Reads(MaxRawIdLines)
             /\ Room(MaxRawIdTasks, 1, 0)
             /\ ReadRequest(raw, LoadMethod, script)
    \/ \E raw \in UncanonicalIdTexts :
          Reads(MaxRawIdLines) /\ ReadCancelRequest(raw)
    \/ ReadEOF

RawIdNext == RawIdReaderStep \/ InflightWorkerStep

RawIdSpec == Init /\ [][RawIdNext]_vars

(***************************************************************************)
(* Properties.                                                             *)
(***************************************************************************)
\* the send of handleResponse never finds its mailbox full, so it never
\* blocks the reader
MailboxNeverFull == \A k \in Calls : Len(calls[k].mailbox) <= 1

\* a call that returned on the response path
ReturnedOnResponsePath(k) ==
    calls[k].pc = "done" /\ calls[k].outcome \in {"result", "rpc error"}

\* C1: when a call returns on the response path, the handler of every
\* notification that was read before its response has completed.
PromptDrain ==
    \A k \in Calls :
        ReturnedOnResponsePath(k) =>
            \A j \in 1..calls[k].ntfSeen : ntfs[j].pc = "done"

\* a call returned on the response path after two notifications that
\* preceded its response
PromptDrainWitness ==
    \E k \in Calls : ReturnedOnResponsePath(k) /\ calls[k].ntfSeen >= 2

\* the response a call holds, in its mailbox or taken from it
Delivered(k) ==
    {calls[k].mailbox[n] : n \in 1..Len(calls[k].mailbox)}
        \cup (IF calls[k].resp = NoMsg THEN {} ELSE {calls[k].resp})

\* a call holds only responses whose id denotes its own id, and returns what
\* the response carries
CorrelatedDelivery ==
    \A k \in Calls :
        /\ \A m \in Delivered(k) :
              /\ canonicalKeys[m.id].err = ""
              /\ canonicalKeys[m.id].key = DecimalText(k)
        /\ ReturnedOnResponsePath(k) =>
              /\ calls[k].resp.payload = "result" => calls[k].outcome = "result"
              /\ calls[k].resp.payload = "error" => calls[k].outcome = "rpc error"
              /\ calls[k].resp.payload # "none"

\* reading a response whose id denotes the id of an awaited call puts the
\* response in the mailbox of that call
EveryEncodingDelivers ==
    \A raw \in ResponseIdTexts, payload \in Payloads, k \in Calls :
        (/\ ReadResponse(raw, payload)
         /\ canonicalKeys[raw].key = DecimalText(k)
         /\ DecimalText(k) \in DOMAIN pending)
            => calls'[k].mailbox = <<[id |-> raw, payload |-> payload]>>

BoundedGrowth ==
    /\ (\A k \in Calls : calls[k].pc \in {"unused", "done"}) => pending = EmptyMap
    /\ (\A i \in Requests : reqs[i].pc \in {"unused", "done"}) => inflight = EmptyMap

\* a call has returned by cancellation, a request worker has finished, and
\* nothing else is in progress
BoundedGrowthWitness ==
    /\ \A k \in Calls : calls[k].pc \in {"unused", "done"}
    /\ \A i \in Requests : reqs[i].pc \in {"unused", "done"}
    /\ \E k \in Calls : calls[k].outcome = "context canceled"
    /\ \E i \in Requests : reqs[i].pc = "done"
    /\ pending = EmptyMap /\ inflight = EmptyMap

\* the handler of request i is running
HandlerRunning(i) == reqs[i].pc \in {"handler", "nested"}

\* two raw ids denote the same value
SameId(a, b) ==
    /\ canonicalKeys[a].err = "" /\ canonicalKeys[b].err = ""
    /\ canonicalKeys[a].key = canonicalKeys[b].key

\* the peer used the id of request i as JSON-RPC allows: every earlier
\* request with an id of the same value had been answered when request i was
\* read, and no later request carries such an id
IdUsedOnce(i) ==
    /\ reqs[i].idFree
    /\ \A h \in Requests :
          (h > i /\ reqs[h].pc # "unused") => reqs[h].key # reqs[i].key

\* a $/cancel_request read while the handler of a request with that id is
\* running cancels the context of the handler with cause context.Canceled
RunningHandlerCancelled ==
    \A raw \in CancelIdTexts, i \in Requests :
        (/\ ReadCancelRequest(raw)
         /\ HandlerRunning(i) /\ IdUsedOnce(i)
         /\ SameId(raw, reqs[i].id))
            => reqs'[i].cause = "context canceled"

\* a handler that returned the mapped context error is answered with an
\* error of code -32800 carrying the id of its request
CancelledHandlerReply ==
    \A i \in Requests :
        (reqs[i].script = "waitCtx" /\ reqs[i].pc \in {"deferred", "done"}
         /\ peerRx = "reading")
            => BagIn(WireLine("reply", reqs[i].id, CodeRequestCancelled), wire)

\* C6: a $/cancel_request naming the id of a request whose handler is
\* running cancels the context of the handler with cause context.Canceled,
\* and the handler that then returns the mapped context error is answered
\* with an error of code -32800 carrying the id of the request (the peer
\* uses an id again only after the earlier request was answered).
InboundCancel == [][RunningHandlerCancelled]_vars /\ []CancelledHandlerReply

\* C7: a $/cancel_request on the line right after the request with the same
\* id always leaves the context of the handler cancelled (the peer uses an id
\* again only after the earlier request was answered).
NoCancelRace ==
    [][\A raw \in CancelIdTexts, i \in Requests :
          (/\ ReadCancelRequest(raw)
           /\ reqs[i].line = linesRead /\ reqs[i].line > 0
           /\ IdUsedOnce(i)
           /\ SameId(raw, reqs[i].id))
              => reqs'[i].cause # ""]_vars

\* C8: a $/cancel_request whose requestId is another encoding of the id of a
\* request whose handler is running cancels the context of that handler (the
\* peer uses an id again only after the earlier request was answered).
CancelRoutingByCanonicalId ==
    [][\A raw \in CancelIdTexts, i \in Requests :
          (/\ ReadCancelRequest(raw)
           /\ HandlerRunning(i) /\ IdUsedOnce(i)
           /\ raw # reqs[i].id /\ SameId(raw, reqs[i].id))
              => reqs'[i].cause # ""]_vars

(***************************************************************************)
(* Liveness of the calls, stated on states: a call that should return is   *)
(* never in a state where no goroutine of the connection can take a step.  *)
(***************************************************************************)
\* the steps of the connection's own goroutines: everything but the lines
\* the peer sends, the calls the application starts, the contexts it ends
\* and the peer's ceasing to read
ProgramStep ==
    \/ \E k \in Calls :
          \/ CallWrites(k) \/ WaitGotResponse(k) \/ WaitCtxDone(k)
          \/ WaitConnDone(k) \/ SendCancelCheckDone(k) \/ CancelAndReturn(k)
          \/ DrainAndReturn(k)
    \/ \E i \in Requests :
          \/ HandlerReturn(i) \/ HandlerCalls(i) \/ HandlerResumes(i)
          \/ ReplyWrites(i) \/ WorkerCleanup(i)
    \/ NotificationWorkerStep
    \/ EmitterWakes \/ EmitterExits \/ EmitterPops \/ EmitterWrites

\* every call that was written has had its response read
PeerOwesNothing ==
    \A k \in Calls : calls[k].pc = "wait" => calls[k].mailbox # <<>>

\* the response of call k has been read and taken from its mailbox
ResponseTaken(k) == calls[k].pc = "drain"

\* C3: once the peer has answered the nested call of a request handler (and
\* every other call), the nested call returns and the request is answered:
\* until then some goroutine of the connection can take a step.
NestedRequestLiveness ==
    \A i \in Requests :
        (/\ reqs[i].pc = "nested"
         /\ ResponseTaken(CallOf(ReqTask(i)))
         /\ PeerOwesNothing
         /\ peerRx = "reading")
        => ENABLED NestedProgramStep

\* C9: a call whose response has been read returns: while the peer reads
\* and has answered every call, some goroutine of the connection can take a
\* step until the call has returned.
PendingEntryDrained ==
    \A k \in Calls :
        (ResponseTaken(k) /\ PeerOwesNothing /\ peerRx = "reading")
        => ENABLED ProgramStep

(***************************************************************************)
(* Outbound cancellation.                                                  *)
(***************************************************************************)
CancelLine(k) == WireLine("cancel", DecimalText(k), 0)
CancelLines(k) == CopiesIn(CancelLine(k), wire)

\* the application cancelled the context of call k while it awaited its
\* response, no response was delivered, and the connection is open
CancelledInFlight(k) ==
    /\ calls[k].owner = User
    /\ calls[k].ctx = "canceled"
    /\ calls[k].mailbox = <<>> /\ calls[k].resp = NoMsg
    /\ ~closed

\* the cancel emitter waits in its select with no signal left
EmitterAtRest == emitter.pc = "select" /\ cancelRequestSignal = 0

CancelPathStep(k) ==
    WaitCtxDone(k) \/ SendCancelCheckDone(k) \/ CancelAndReturn(k)

\* call k is on its way from the cancellation of its context to its return
OnCancelPath(k) ==
    \/ calls[k].pc = "wait" /\ CtxDone(k)
    \/ calls[k].pc \in {"sendCancel", "enqueue", "cleanup"}

AwaitingResponse(k) == calls[k].pc = "wait" /\ calls[k].mailbox = <<>>

\* Done stays closed, the reader stays exited, and a call that awaits its
\* response on a closed connection leaves waitForResponse only by returning
\* the disconnect error with its pending entry removed
ShutdownStep ==
    /\ closed => closed'
    /\ readerPc = "exited" => readerPc' = "exited"
    /\ \A k \in Calls :
          (closed /\ AwaitingResponse(k) /\ calls'[k].pc # "wait")
          => /\ calls'[k].pc = "done"
             /\ calls'[k].code = CodeInternalError
             /\ calls'[k].outcome = "peer disconnected"
             /\ DecimalText(k) \notin DOMAIN pending'

\* once the reader has exited Done is closed, and every call that awaits its
\* response can then return
ShutdownReady ==
    /\ readerPc = "exited" => closed
    /\ \A k \in Calls : (closed /\ AwaitingResponse(k)) => ENABLED WaitConnDone(k)

\* C11: when the reader loop exits, Done is closed and stays closed, and
\* every call that still awaits its response can return and returns only the
\* 'peer disconnected' error, code -32603, with its pending entry removed.
Shutdown == [][ShutdownStep]_vars /\ []ShutdownReady

ShutdownWitness ==
    /\ readerPc = "exited" /\ closed
    /\ \E k \in Calls :
          /\ calls[k].pc = "done" /\ calls[k].outcome = "peer disconnected"
          /\ calls[k].code = CodeInternalError
          /\ DecimalText(k) \notin DOMAIN pending

\* a call in waitForResponse whose context is done on a closed connection
\* leaves the select either with a response that was already in its mailbox
\* or with the disconnect error, its pending entry removed and nothing added
\* to the cancel queue
DisconnectWinsStep ==
    \A k \in Calls :
        (calls[k].pc = "wait" /\ CtxDone(k) /\ closed /\ calls'[k].pc # "wait")
        => \/ calls[k].mailbox # <<>> /\ calls'[k].pc = "drain"
           \/ /\ calls'[k].pc = "done"
              /\ calls'[k].outcome = "peer disconnected"
              /\ calls'[k].code = CodeInternalError
              /\ calls'[k].code # CodeRequestCancelled
              /\ DecimalText(k) \notin DOMAIN pending'
              /\ pendingCancelRequest' = pendingCancelRequest
              /\ cancelRequestSignal' = cancelRequestSignal

\* C12: if the context of a call is done and the connection is already
\* closed when waitForResponse observes it, the call returns the disconnect
\* error (code -32603, never -32800), removes its pending entry and enqueues
\* no $/cancel_request.
DisconnectWins == [][DisconnectWinsStep]_vars

\* a call whose context the application cancelled returned the disconnect
\* error, and no $/cancel_request for it is queued or written
DisconnectWinsWitness ==
    \E k \in Calls :
        /\ calls[k].owner = User /\ calls[k].ctx = "canceled"
        /\ calls[k].pc = "done" /\ calls[k].outcome = "peer disconnected"
        /\ calls[k].code = CodeInternalError
        /\ closed
        /\ pendingCancelRequest = <<>> /\ cancelRequestSignal = 0
        /\ CancelLines(k) = 0

(***************************************************************************)
(* The canonical key of an id.                                             *)
(***************************************************************************)
Canonicalized == canon.pc = "done"

BothNumbers == IsJSONNumber(canon.a) /\ IsJSONNumber(canon.b)

BothKeyed == canon.keyA.err = "" /\ canon.keyB.err = ""

(* C13 as stated: any two JSON number literals that denote the same        *)
(* rational have the same canonical key, whatever their magnitude.         *)
CanonicalIdEquivalenceUnbounded ==
    (Canonicalized /\ BothNumbers /\ SameRational(canon.a, canon.b))
        => canon.keyA = canon.keyB

(* C13: two JSON number literals that denote the same rational, each       *)
(* within the limits so that canonicalJSONRPCIDKey returns a key for it,   *)
(* have the same canonical key (1, 1.0 and 1e0; 0.1 and 1e-1; -0 and 0).   *)
CanonicalIdEquivalence ==
    (Canonicalized /\ BothNumbers /\ BothKeyed /\ SameRational(canon.a, canon.b))
        => canon.keyA.key = canon.keyB.key

CanonicalIdEquivalenceWitness ==
    /\ Canonicalized /\ BothKeyed
    /\ canon.a = <<"1", ".", "0">> /\ canon.b = <<"1", "e", "0">>
    /\ SameRational(canon.a, canon.b)
    /\ canon.keyA.key = <<"1">> /\ canon.keyB.key = <<"1">>

\* what an id denotes: null, a string or a number
IdKind(raw) ==
    IF raw = NullText THEN "null"
    ELSE IF Len(raw) >= 2 /\ raw[1] = "\"" /\ raw[Len(raw)] = "\"" THEN "string"
    ELSE IF IsJSONNumber(raw) THEN "number"
    ELSE "other"

StringOf(raw) == DecodeJSONString(SubSeq(raw, 2, Len(raw) - 1), 1)

SameValue(a, b) ==
    /\ IdKind(a) = IdKind(b)
    /\ IdKind(a) = "number" => SameRational(a, b)
    /\ IdKind(a) = "string" => StringOf(a) = StringOf(b)

(* C14: two ids that share a canonical key denote the same value: the same *)
(* rational at any magnitude, the same string, or null; a number, a string *)
(* and null never share a key.                                             *)
CanonicalKeyInjectivity ==
    (Canonicalized /\ BothKeyed /\ canon.keyA.key = canon.keyB.key)
        => SameValue(canon.a, canon.b)

CanonicalKeyInjectivityWitness ==
    /\ Canonicalized /\ BothKeyed
    /\ canon.a = <<"1">> /\ canon.b = <<"\"", "1", "\"">>
    /\ ~SameValue(canon.a, canon.b)
    /\ canon.keyA.key = <<"1">> /\ canon.keyB.key = <<"\"", "1", "\"">>

\* the number of zeros at the end of a digit string
RECURSIVE TrailingZeroCount(_)
TrailingZeroCount(digits) ==
    IF digits # <<>> /\ digits[Len(digits)] = "0"
    THEN 1 + TrailingZeroCount(SubSeq(digits, 1, Len(digits) - 1))
    ELSE 0

\* the length of the shortest plain decimal notation of a number literal,
\* without its sign: the digits d of the significand without trailing zeros
\* and the exponent e give d followed by e zeros, d with a point inside, or
\* 0. followed by zeros and d
UnsignedKeyLength(raw) ==
    LET z == TrailingZeroCount(Significand(raw))
        n == Len(Significand(raw)) - z
        e == Exponent10(raw) + z
    IN  IF n = 0 THEN 1
        ELSE IF e >= 0 THEN n + e
        ELSE IF n > -e THEN n + 1
        ELSE 2 - e

SignedKeyLength(raw) == UnsignedKeyLength(raw) + (IF Negative(raw) THEN 1 ELSE 0)

\* the two ids with their keys
Canonicalizations ==
    {[raw |-> canon.a, key |-> canon.keyA], [raw |-> canon.b, key |-> canon.keyB]}

ExponentTooLarge(raw) == NumberOf(raw).exp > maxCanonicalJSONRPCIDAbsExp10

(* C15 as stated: a key returned for a numeric id has at most 4096         *)
(* characters, and a numeric id whose exponent magnitude exceeds 4096 or   *)
(* whose key would exceed 4096 characters yields 'too large'.              *)
CanonicalKeyBoundsSigned ==
    Canonicalized =>
        \A c \in Canonicalizations :
            IsJSONNumber(c.raw) =>
                /\ c.key.err = "" => Len(c.key.key) <= maxCanonicalJSONRPCIDKeyLen
                /\ (\/ ExponentTooLarge(c.raw)
                    \/ SignedKeyLength(c.raw) > maxCanonicalJSONRPCIDKeyLen)
                       => c.key.err = ErrTooLarge

(* C15: a key returned for a numeric id has at most 4096 characters, not   *)
(* counting a leading minus sign, and a numeric id whose exponent          *)
(* magnitude exceeds 4096 or whose key without the sign would exceed 4096  *)
(* characters yields 'too large' instead of a key.                         *)
CanonicalKeyBounds ==
    Canonicalized =>
        \A c \in Canonicalizations :
            IsJSONNumber(c.raw) =>
                /\ c.key.err = "" =>
                       /\ Len(c.key.key) = SignedKeyLength(c.raw)
                       /\ UnsignedKeyLength(c.raw) <= maxCanonicalJSONRPCIDKeyLen
                /\ (\/ ExponentTooLarge(c.raw)
                    \/ UnsignedKeyLength(c.raw) > maxCanonicalJSONRPCIDKeyLen)
                       => c.key.err = ErrTooLarge

CanonicalKeyBoundsWitness ==
    /\ Canonicalized
    /\ canon.a = <<"1", "e", "4", "0", "9", "5">>
    /\ canon.keyA.err = "" /\ Len(canon.keyA.key) = maxCanonicalJSONRPCIDKeyLen
    /\ canon.b = <<"1", "e", "4", "0", "9", "6">>
    /\ UnsignedKeyLength(canon.b) > maxCanonicalJSONRPCIDKeyLen
    /\ canon.keyB.err = ErrTooLarge

(***************************************************************************)
(* Replies to inbound messages.                                            *)
(***************************************************************************)
\* the reply lines on the wire
Replies == [l \in {x \in DOMAIN wire : x.kind = "reply"} |-> wire[l]]

\* the request workers whose sendMessage has returned
Answered == {i \in Requests : reqs[i].pc \in {"deferred", "done"}}

\* the reply that a request is due: the method-not-found error without a
\* handler for it, else what its method returned
ReplyDue(r) ==
    [kind |-> "reply",
     id |-> r.id,
     code |-> IF handlerNil THEN -32601
              ELSE IF r.method[1] = "_" /\ ~extensionHandler THEN -32601
              ELSE IF r.script = "ok" THEN 0
              ELSE IF r.script = "err" THEN CodeHandlerError
              ELSE IF r.script = "notFound" THEN -32601
              ELSE -32603]

\* a step that changes the reply lines is the one sendMessage of a request
\* worker, and adds the reply due with the id as the peer wrote it
OneReplyStep ==
    Replies' # Replies =>
        \E i \in Requests :
            /\ reqs[i].pc \in {"write", "writing"}
            /\ reqs' = [reqs EXCEPT ![i].pc = "deferred"]
            /\ wire' = wire (+) SetToBag({ReplyDue(reqs[i])})
            /\ ntfs' = ntfs

\* there is a reply line for each request answered while the peer accepts
\* what is written, and never more reply lines than requests answered
RepliesAnswered ==
    /\ BagCardinality(Replies) <= Cardinality(Answered)
    /\ peerRx = "reading" =>
           /\ BagCardinality(Replies) = Cardinality(Answered)
           /\ \A i \in Answered : BagIn(ReplyDue(reqs[i]), wire)

SkippedLines ==
    linesRead - Cardinality(Spawned(reqs)) - Cardinality(Spawned(ntfs))

\* reading a malformed line leaves the reader in its loop and the
\* connection as it was
SkippedLineStep ==
    (linesRead' = linesRead + 1 /\ SkippedLines' = SkippedLines + 1) =>
        /\ readerPc = "scan" /\ readerPc' = "scan"
        /\ closed' = closed
        /\ pending' = pending
        /\ inflight' = inflight
        /\ calls' = calls /\ reqs' = reqs /\ ntfs' = ntfs

\* a reader that has read malformed lines and not the end of the input has
\* the connection open and dispatches the next request
StillDispatching ==
    (SkippedLines > 0 /\ readerPc = "scan") =>
        /\ ~closed
        /\ (\E i \in Requests : reqs[i].pc = "unused") =>
               ENABLED ReadRequest(<<"1", "e", "0">>, LoadMethod, "ok")

(* C17: a line that fails to parse, or a message with neither id nor       *)
(* method, does not tear the connection down: the reader stays in its      *)
(* loop, Done is not signalled, pending and inflight are unchanged, and    *)
(* the lines after it are dispatched.                                      *)
MalformedLineSkipped == [][SkippedLineStep]_vars /\ []StillDispatching

MalformedLineSkippedWitness ==
    /\ SkippedLines = 1 /\ linesRead = 2
    /\ reqs[1].pc = "done" /\ reqs[1].line = 2
    /\ pending # EmptyMap
    /\ readerPc = "scan" /\ ~closed

(***************************************************************************)
(* Extension methods.                                                      *)
(***************************************************************************)
\* the workers whose message has been given to handleWithExtensions
RoutedRequests == {i \in Requests : reqs[i].to # ""}
RoutedNotifications == {j \in Notifications : ntfs[j].to # ""}

\* where a method beginning with '_' may go, and where any other
RouteDue(method) ==
    IF method[1] = "_"
    THEN IF extensionHandler THEN "extension" ELSE "none"
    ELSE "generated"

(* C18: a method whose name begins with '_' goes to the domain object's    *)
(* extension handler and never to the generated dispatch; without an       *)
(* extension handler the result is method not found, -32601, which a       *)
(* request receives as its error reply; every other method goes to the     *)
(* generated dispatch.                                                     *)
ExtensionRouting ==
    /\ \A i \in RoutedRequests :
          /\ reqs[i].to = RouteDue(reqs[i].method)
          /\ reqs[i].to = "none" =>
                /\ reqs[i].replyCode = -32601
                /\ (i \in Answered /\ peerRx = "reading") =>
                       BagIn([kind |-> "reply", id |-> reqs[i].id, code |-> -32601],
                             wire)
    /\ \A j \in RoutedNotifications :
          /\ ntfs[j].to = RouteDue(ntfs[j].method)
          /\ ntfs[j].to = "none" => ntfs[j].code = -32601

ExtensionRoutingWitness ==
    /\ ~handlerNil /\ ~extensionHandler
    /\ reqs[1].pc = "done" /\ reqs[1].method = VendorMethod
    /\ reqs[1].to = "none"
    /\ BagIn([kind |-> "reply", id |-> reqs[1].id, code |-> -32601], wire)
    /\ reqs[2].pc = "done" /\ reqs[2].method = LoadMethod
    /\ reqs[2].to = "generated" /\ reqs[2].replyCode = 0

\* the notification workers whose handleInbound has returned
Handled == {j \in Notifications : ntfs[j].pc = "done"}

(* C19: a notification whose method begins with '_' and whose handler      *)
(* returns the error -32601 is not logged; a notification whose handler    *)
(* returns an error of another code, or whose method does not begin with   *)
(* '_', is logged as 'failed to handle notification'; neither is replied   *)
(* to: every reply line is the reply of a request.                         *)
NotificationErrors ==
    ~handlerNil =>
        /\ \A j \in Handled :
              /\ (ntfs[j].method[1] = "_" /\ ntfs[j].code = -32601)
                     => ~ntfs[j].logged
              /\ (ntfs[j].code # 0
                  /\ (ntfs[j].method[1] # "_" \/ ntfs[j].code # -32601))
                     => ntfs[j].logged
        /\ \A l \in DOMAIN Replies :
              \E i \in Requests :
                  reqs[i].pc \in {"writing", "deferred", "done"}
                  /\ l = ReplyDue(reqs[i])

NotificationErrorsWitness ==
    /\ ~handlerNil /\ extensionHandler
    /\ Handled = Notifications
    /\ \E j \in Handled :
          /\ ntfs[j].method = VendorMethod /\ ntfs[j].to = "extension"
          /\ ntfs[j].code = -32601 /\ ~ntfs[j].logged
    /\ \E j \in Handled :
          /\ ntfs[j].method = LoadMethod
          /\ ntfs[j].code = -32601 /\ ntfs[j].logged
    /\ Replies = EmptyBag

(***************************************************************************)
(* unboundedQueue.                                                         *)
(***************************************************************************)
\* the items pushed so far
Pushed ==
    {x \in [producer : Producers, n : 1..MaxItems] :
        x.n <= queue.producer[x.producer].n}

\* how many times pop has returned the item
TimesPopped(x) ==
    Cardinality({a \in DOMAIN queue.popped : queue.popped[a].item = x})

\* how many times the item is in the queue
TimesQueued(x) ==
    Cardinality({a \in DOMAIN queue.items : queue.items[a] = x})

ConsumersDone == \A c \in Consumers : queue.consumer[c].pc = "done"

(* C20: every pushed item is popped exactly once: an item is popped at     *)
(* most once and only if it was pushed, an item not yet popped is still in *)
(* the queue, and when the producers have finished, the queue is closed    *)
(* and every consumer has been told so, nothing is left in the queue; the  *)
(* items of one producer are popped in the order it pushed them.           *)
QueueDelivery ==
    /\ \A a \in DOMAIN queue.popped : queue.popped[a].item \in Pushed
    /\ \A x \in Pushed : TimesPopped(x) + TimesQueued(x) = 1
    /\ \A a, b \in DOMAIN queue.popped :
          (a < b /\ queue.popped[a].item.producer = queue.popped[b].item.producer)
              => queue.popped[a].item.n < queue.popped[b].item.n
    /\ queue.closer = "done" => queue.waiters = {}
    /\ ConsumersDone =>
          /\ ProducersDone /\ queue.items = <<>>
          /\ \A x \in Pushed : TimesPopped(x) = 1

QueueDeliveryWitness ==
    /\ ConsumersDone /\ ProducersDone /\ queue.closer = "done"
    /\ Len(queue.popped) = MaxProducers * MaxItems
    /\ queue.popped[1].item.producer # queue.popped[2].item.producer
    /\ \A c \in Consumers : \E a \in DOMAIN queue.popped : queue.popped[a].by = c

\* a consumer's pop returns in this step
PopReturns(c) ==
    queue.consumer[c].pc = "locked" /\ queue'.consumer[c].pc \in {"idle", "done"}

\* what a returning pop returns: the oldest item when there is one, the
\* closed sentinel only from a queue that is closed and empty
PopResultStep ==
    \A c \in Consumers :
        PopReturns(c) =>
            IF queue.items # <<>>
            THEN /\ queue'.consumer[c].pc = "idle"
                 /\ queue'.popped =
                        Append(queue.popped, [item |-> queue.items[1], by |-> c])
                 /\ queue'.items = SubSeq(queue.items, 2, Len(queue.items))
            ELSE /\ queue.closed
                 /\ queue'.consumer[c].pc = "done"
                 /\ queue'.popped = queue.popped

\* what a pop that holds q.mu can do: return an item, return the sentinel,
\* or wait, each in its own case
PopCases ==
    \A c \in Consumers :
        queue.consumer[c].pc = "locked" =>
            /\ ENABLED PopTake(c) <=> queue.items # <<>>
            /\ ENABLED PopClosed(c) <=> (queue.items = <<>> /\ queue.closed)
            /\ ENABLED PopWait(c) <=> (queue.items = <<>> /\ ~queue.closed)

(* C21: pop returns (item, true), the oldest item, whenever the queue      *)
(* holds an item, also after close; it returns the closed sentinel only    *)
(* when the queue is closed and empty; it never returns while the queue is *)
(* empty and open.                                                         *)
PopResult == [][PopResultStep]_vars /\ []PopCases

\* a pop about to take from a closed queue that still holds two items
PopResultWitness ==
    /\ queue.closer = "done" /\ queue.closed
    /\ Len(queue.items) = 2
    /\ \E c \in Consumers : queue.consumer[c].pc = "locked"

\* every item of every producer has been popped
AllPopped == Len(queue.popped) = MaxProducers * MaxItems

(* C22: no wake-up is lost: whether or not close is ever called, every     *)
(* pushed item is eventually popped (a push wakes a blocked pop), and once *)
(* the queue is closed every consumer, blocked or not, eventually gets the *)
(* closed sentinel.                                                        *)
QueueWakeUp ==
    /\ <>AllPopped
    /\ queue.closed ~> ConsumersDone

\* close is about to broadcast with every consumer blocked in pop
QueueWakeUpWitness ==
    /\ queue.closer = "broadcast"
    /\ queue.waiters = Consumers
    /\ AllPopped

(***************************************************************************)
(* Outbound requests.                                                      *)
(***************************************************************************)
\* a call that returns at once, without a write, leaves the wire, the
\* writer mutex and the pending map as they were and returns invalid params
InvalidParamsStep ==
    \A k \in Calls :
        (calls[k].pc = "unused" /\ calls'[k].pc = "done") =>
            /\ calls'[k].code = -32602
            /\ wire' = wire /\ writeMu' = writeMu
            /\ pending' = pending

\* the calls that returned invalid params
InvalidParamsCalls == {k \in Calls : calls[k].outcome = "invalid params"}

\* such a call never has a pending entry or a line on the wire
InvalidParamsLocal ==
    \A k \in InvalidParamsCalls :
        /\ calls[k].code = -32602
        /\ \A key \in DOMAIN pending : pending[key] # k
        /\ \A l \in DOMAIN wire : ~(l.kind = "request" /\ l.id = DecimalText(k))

(* C23: when marshalling the params of an outbound request fails,          *)
(* SendRequest returns the invalid-params error -32602, nothing is written *)
(* to the peer and no pending entry is created.                            *)
InvalidParams == [][InvalidParamsStep]_vars /\ []InvalidParamsLocal

InvalidParamsWitness ==
    /\ calls[1].pc = "done" /\ calls[1].outcome = "invalid params"
    /\ calls[1].code = -32602
    /\ calls[2].pc = "wait" /\ DecimalText(2) \in DOMAIN pending
    /\ DOMAIN wire = {[kind |-> "request", id |-> DecimalText(2), code |-> 0]}

(***************************************************************************)
(* Outbound notifications.                                                 *)
(***************************************************************************)
\* the notification lines on the wire
NotificationLines ==
    [l \in {x \in DOMAIN wire : x.kind = "notification"} |-> wire[l]]

\* the SendNotification calls that returned nil
Sent == {n \in Sends : notes[n].pc = "done" /\ notes[n].code = 0}

\* a step of SendNotification leaves the pending map, the inflight map and
\* the id counter alone, and writes at most one line, which has no id
SendNotificationStep ==
    notes' # notes =>
        /\ pending' = pending /\ inflight' = inflight /\ nextID' = nextID
        /\ \/ wire' = wire
           \/ wire' = wire (+) SetToBag({[kind |-> "notification", id |-> <<>>,
                                          code |-> 0]})

\* a call whose context was done returned -32603 and wrote nothing: there
\* is one notification line for each call that returned nil, and none has
\* an id
SendNotificationDone ==
    /\ \A n \in Sends :
          (notes[n].pc # "unused" /\ notes[n].ctxDone) =>
              notes[n].pc = "done" /\ notes[n].code = -32603
    /\ BagCardinality(NotificationLines) = Cardinality(Sent)
    /\ \A l \in DOMAIN NotificationLines : l.id = <<>>

(* C24: SendNotification called with a context that is already done        *)
(* returns the internal error -32603 and writes nothing; in every case it  *)
(* leaves the pending map, the inflight map and the next-id counter         *)
(* unchanged, and the message it writes carries no id.                     *)
SendNotificationFrame == [][SendNotificationStep]_vars /\ []SendNotificationDone

SendNotificationFrameWitness ==
    /\ notes[1].pc = "done" /\ notes[1].ctxDone /\ notes[1].code = -32603
    /\ pending # EmptyMap /\ inflight # EmptyMap
    /\ NotificationLines = EmptyBag

(***************************************************************************)
(* The writer mutex.                                                       *)
(***************************************************************************)
\* the tasks inside c.w.Write
Writing ==
    {CallTask(k) : k \in {x \in Calls : calls[x].pc = "writing"}}
    \cup {ReqTask(i) : i \in {x \in Requests : reqs[x].pc = "writing"}}
    \cup {NoteTask(n) : n \in {x \in Sends : notes[x].pc = "writing"}}
    \cup (IF emitter.pc = "writing" THEN {EmitterTask} ELSE {})

\* at most one task is inside Write, and it is the holder of c.writeMu
OneWriter ==
    /\ Cardinality(Writing) <= 1
    /\ writeMu = NoTask <=> Writing = {}
    /\ writeMu # NoTask => Writing = {writeMu}

\* a line gets on the wire whole, in one step, while no other task is
\* inside Write
WholeLineStep ==
    wire' # wire =>
        /\ Writing = {}
        /\ \E line \in DOMAIN wire' : wire' = wire (+) SetToBag({line})

(* C25: at most one task is writing a framed line to the peer at any       *)
(* moment, so each message of concurrent requests, replies, notifications  *)
(* and cancel notifications reaches the peer as one whole line.            *)
WriterExclusion == [][WholeLineStep]_vars /\ []OneWriter

\* the emitter is inside Write with a request and a notification waiting
\* for c.writeMu
WriterExclusionWitness ==
    /\ emitter.pc = "writing" /\ writeMu = EmitterTask
    /\ \E k \in Calls : calls[k].pc = "write"
    /\ notes[1].pc = "write"

(***************************************************************************)
(* Outbound ids.  The call that is assigned id k is calls[k].              *)
(***************************************************************************)
\* the ids assigned so far
Assigned == 1..nextID

\* the counter moves by one, to the id of the call that begins
NextIdStep ==
    nextID' # nextID =>
        /\ nextID' = nextID + 1
        /\ calls[nextID'].pc = "unused" /\ calls'[nextID'].pc # "unused"
        /\ \A k \in Assigned : calls'[k] = calls[k]

\* the calls that have not yet been answered, cancelled or disconnected
Unanswered ==
    {k \in Calls : calls[k].pc \in {"write", "writing", "wait"}
                   /\ calls[k].mailbox = <<>>}

\* no two ids share a canonical key, every pending entry sits under the key
\* of its owner's id, every unanswered call owns its entry, and no request
\* line is written twice
OutboundIdsDistinct ==
    /\ \A j, k \in Assigned :
          j # k => canonicalJSONRPCIDKey(DecimalText(j))
                       # canonicalJSONRPCIDKey(DecimalText(k))
    /\ \A k \in Assigned : calls[k].pc # "unused"
    /\ \A k \in Calls \ Assigned : calls[k].pc = "unused"
    /\ \A key \in DOMAIN pending :
          pending[key] \in Assigned
          /\ canonicalJSONRPCIDKey(DecimalText(pending[key])).key = key
    /\ \A k \in Unanswered :
          DecimalText(k) \in DOMAIN pending /\ pending[DecimalText(k)] = k
    /\ \A l \in DOMAIN wire : l.kind = "request" => wire[l] = 1

(* C26: the ids assigned to outbound requests are 1, 2, 3, ... in          *)
(* assignment order, so no two outbound requests share a canonical key and *)
(* the pending map never holds an entry that another caller overwrote.     *)
OutboundIdUniqueness == [][NextIdStep]_vars /\ []OutboundIdsDistinct

\* two calls await their responses at once, each with its own entry
OutboundIdUniquenessWitness ==
    /\ nextID = 2
    /\ calls[1].pc = "wait" /\ calls[2].pc = "wait"
    /\ DOMAIN pending = {DecimalText(1), DecimalText(2)}
    /\ pending[DecimalText(1)] = 1 /\ pending[DecimalText(2)] = 2

(***************************************************************************)
(* C27: the inflight entry and the cancellation handle of an inbound       *)
(* request.                                                                *)
(***************************************************************************)
\* c.inflight holds the handle of worker i
InflightOf(i) == \E idKey \in DOMAIN inflight : inflight[idKey] = i

CancelInvokeStep ==
    \A i \in Requests :
        /\ reqs'[i].invoked \in {reqs[i].invoked, reqs[i].invoked + 1}
        /\ (reqs[i].pc # "done" /\ reqs'[i].pc = "done") =>
               reqs'[i].invoked = reqs[i].invoked + 1
        /\ (reqs'[i].invoked # reqs[i].invoked /\ reqs'[i].pc = reqs[i].pc) =>
               /\ linesRead' = linesRead + 1
               /\ InflightOf(i)
               /\ reqs[i].pc \notin {"unused", "done"}
        /\ (reqs[i].pc # "unused" /\ reqs[i].cause # "") =>
               reqs'[i].cause = reqs[i].cause

\* a completed request has no entry, its handle was called at least once
\* and its context is cancelled; a handle that was called has cancelled
\* the context; an entry belongs to a request that was read
InflightSettled ==
    /\ \A i \in Requests :
          /\ reqs[i].pc = "done" =>
                ~InflightOf(i) /\ reqs[i].invoked >= 1 /\ reqs[i].cause # ""
          /\ reqs[i].invoked > 0 => reqs[i].cause # ""
          /\ reqs[i].pc = "unused" => reqs[i].invoked = 0
    /\ \A idKey \in DOMAIN inflight : reqs[inflight[idKey]].pc # "unused"

CancelsSent ==
    cancels.nextID
    - (IF cancels.call.pc \in {"wait", "sendCancel"} THEN 1 ELSE 0)

\* the ids that were appended to the queue
CancelsQueued == Len(cancels.pendingCancelRequest) + cancels.emitter.popped

\* the step a call takes through sendCancelRequest: on a full queue the id
\* is dropped and the queue, the signal and the emitter stay as they are;
\* otherwise, on an open connection, the id goes to the tail
CancelQueueStep ==
    (cancels.call.pc = "sendCancel" /\ cancels'.call.pc # "sendCancel") =>
        /\ cancels'.call.pc = "cleanup"
        /\ cancels'.emitter = cancels.emitter
        /\ cancels'.pending = cancels.pending
        /\ IF cancels.closed
           THEN cancels'.pendingCancelRequest = cancels.pendingCancelRequest
                /\ cancels'.dropped = cancels.dropped
           ELSE IF Len(cancels.pendingCancelRequest) = maxPendingCancelRequests
           THEN /\ cancels'.pendingCancelRequest = cancels.pendingCancelRequest
                /\ cancels'.cancelRequestSignal = cancels.cancelRequestSignal
                /\ cancels'.dropped = cancels.dropped + 1
           ELSE /\ cancels'.pendingCancelRequest =
                      Append(cancels.pendingCancelRequest,
                             DecimalText(cancels.call.id))
                /\ cancels'.dropped = cancels.dropped

\* the queue stays within its bound, in the unit runs and in the
\* connection's; a call at sendCancelRequest or past it can always take its
\* next step, whatever the queue, the signal and the emitter are at; ids are
\* dropped on a full queue only, and every other id of an open connection
\* is queued; a call that has returned has its cancel error and no pending
\* entry
CancelQueueInv ==
    /\ Len(cancels.pendingCancelRequest) <= maxPendingCancelRequests
    /\ Len(pendingCancelRequest) <= maxPendingCancelRequests
    /\ cancels.call.pc = "sendCancel" =>
           ENABLED sendCancelRequest(DecimalText(cancels.call.id))
    /\ cancels.call.pc = "cleanup" => ENABLED CancelsReturn
    /\ cancels.dropped > 0 => CancelsQueued >= maxPendingCancelRequests
    /\ CancelsQueued + cancels.dropped \in
           {CancelsSent - (IF cancels.closed THEN 1 ELSE 0), CancelsSent}
    /\ cancels.call.pc = "returned" =>
           /\ cancels.call.code = CodeRequestCancelled
           /\ cancels.pending = {}
    /\ cancels.pending \subseteq {DecimalText(cancels.call.id)}

\* C28: the queue of ids awaiting emission as $/cancel_request never holds
\* more than maxPendingCancelRequests (1024) entries; an id that arrives at a
\* full queue is dropped, the enqueue never blocks, and the cancelled call
\* still returns its cancel error with its pending entry removed.
CancelQueueBound == [][CancelQueueStep]_vars /\ []CancelQueueInv

\* the queue is full, the last call's id was dropped, and the call has
\* returned the cancel error with its pending entry removed
CancelQueueBoundWitness ==
    /\ Len(cancels.pendingCancelRequest) = maxPendingCancelRequests
    /\ cancels.dropped >= 1
    /\ cancels.call.pc = "returned"
    /\ cancels.call.code = CodeRequestCancelled
    /\ cancels.pending = {}
    /\ \A n \in 1..Len(cancels.pendingCancelRequest) :
          cancels.pendingCancelRequest[n] # DecimalText(cancels.call.id)
    /\ ~cancels.closed

(***************************************************************************)
(* C29: responses without a pending entry.                                 *)
(***************************************************************************)
\* the messages call k's mailbox has received
Received(k) ==
    Len(calls[k].mailbox) + (IF calls[k].resp # NoMsg THEN 1 ELSE 0)

\* call k owns an entry of c.pending
Awaited(k) == \E idStr \in DOMAIN pending : pending[idStr] = k

\* reading a response whose id has no pending entry changes neither the
\* calls nor the pending map and leaves the reader scanning; a mailbox
\* receives one message at a time, from a step that removes its owner's
\* entry
DiscardStep ==
    /\ \A raw \in ResponseIdTexts, payload \in Payloads :
          (ReadResponse(raw, payload) /\ IdKey(raw) \notin DOMAIN pending) =>
              /\ calls' = calls /\ pending' = pending
              /\ wire' = wire /\ writeMu' = writeMu
              /\ readerPc' = "scan" /\ closed' = closed
    /\ \A k \in Calls :
          /\ Received(k)' \in {Received(k), Received(k) + 1}
          /\ Received(k)' = Received(k) + 1 => Awaited(k) /\ ~Awaited(k)'

\* no mailbox ever receives a second message, a call that has its message
\* has no entry left, and the reader can take in a response of any id
\* whenever it scans
DiscardInv ==
    /\ \A k \in Calls :
          /\ Received(k) <= 1
          /\ Received(k) = 1 => ~Awaited(k)
          /\ calls[k].pc \in {"unused", "done"} => ~Awaited(k)
    /\ CanScan =>
          \A raw \in ResponseIdTexts, payload \in Payloads :
              ENABLED ReadResponse(raw, payload)

\* C29: a response whose id has no pending entry (never issued, already
\* answered, or already removed by cancel) is discarded: no caller receives
\* it, the pending map is unchanged and the reader does not block on it;
\* each mailbox receives at most one message, so a second response with
\* the same id is dropped.
ResponseDiscard == [][DiscardStep]_vars /\ []DiscardInv

\* the only call issued was answered and two responses were read: one of
\* them found no entry, and the reader scans on
ResponseDiscardWitness ==
    /\ nextID = 1 /\ linesRead = 2
    /\ \A i \in Requests : reqs[i].pc = "unused"
    /\ calls[1].pc = "done" /\ calls[1].outcome = "result"
    /\ Received(1) = 1
    /\ pending = EmptyMap
    /\ readerPc = "scan" /\ ~closed

(***************************************************************************)
(* C30: the code of a request that ends with its context.                  *)
(***************************************************************************)
\* the causes of the contexts of the application
ContextCauses ==
    {"context canceled", "context canceled; extra context", "request aborted",
     "context deadline exceeded"}

\* call k returned from the case <-ctx.Done() of waitForResponse with the
\* mapped cause
EndedByContext(k) ==
    /\ calls[k].owner = User /\ calls[k].pc = "done"
    /\ calls[k].outcome \in ContextCauses

\* C30: a request that ends because its context was cancelled, also with a
\* cause that wraps context.Canceled among other errors, returns -32800; one
\* that ends because the deadline was exceeded returns -32603; one that ends
\* with any other cause returns -32603.
CauseMapping ==
    \A k \in Calls :
        EndedByContext(k) =>
            /\ calls[k].ctx \in {"canceled", "wrapped"} => calls[k].code = -32800
            /\ calls[k].ctx = "deadline" => calls[k].code = -32603
            /\ calls[k].ctx = "other" => calls[k].code = -32603
            /\ calls[k].ctx # "live"
            /\ ~(\E idStr \in DOMAIN pending : pending[idStr] = k)

\* one call has ended with a cause that wraps context.Canceled and another
\* with a cause of the application's own
CauseMappingWitness ==
    /\ EndedByContext(1) /\ calls[1].ctx = "wrapped" /\ calls[1].code = -32800
    /\ EndedByContext(2) /\ calls[2].ctx = "other" /\ calls[2].code = -32603

(***************************************************************************)
(* C31: the notifications a returning call waits for.                      *)
(***************************************************************************)
\* call k has its response, and every notification whose worker was
\* spawned before the response line was read has completed
DrainedBefore(k) ==
    /\ calls[k].pc = "drain"
    /\ \A j \in 1..calls[k].ntfSeen : ntfs[j].pc = "done"

\* C31: between the response and the return, SendRequest waits for exactly
\* the notifications whose workers were spawned before the response line
\* was read: once these have completed the call can return, whatever
\* notifications were read after the response.
ExactDrain ==
    \A k \in Calls : DrainedBefore(k) => ENABLED DrainAndReturn(k)

(***************************************************************************)
(* C32: a notification handler that calls SendRequest.                     *)
(***************************************************************************)
\* the handler of notification j awaits its nested call, whose response
\* has been read and taken, and no other notification handler is running
NestedAnswered(j) ==
    /\ ntfs[j].pc = "nested"
    /\ calls[CallOf(NtfTask(j))].pc = "drain"
    /\ \A h \in Notifications \ {j} : ntfs[h].pc \in {"unused", "done"}

\* C32: a handler of an inbound notification may call SendRequest on the
\* same connection and await it: once the peer's response line is read the
\* nested call returns, so that the handler can finish.
NotificationNestedCall ==
    \A j \in Notifications :
        NestedAnswered(j) => ENABLED DrainAndReturn(CallOf(NtfTask(j)))

(***************************************************************************)
(* C33: $/cancel_request in the order of the reader.                       *)
(***************************************************************************)
\* the reader handles a $/cancel_request within the step that reads it: the
\* step reads that one line, writes nothing, and changes nothing but the
\* request whose handle is in c.inflight under the key of the named id; with
\* no such entry it changes nothing at all
CancelOrderStep ==
    \A raw \in CancelIdTexts :
        ReadCancelRequest(raw) =>
            /\ linesRead' = linesRead + 1
            /\ readerPc' = readerPc /\ closed' = closed
            /\ inflight' = inflight /\ pending' = pending /\ calls' = calls
            /\ wire' = wire /\ writeMu' = writeMu /\ ntfs' = ntfs
            /\ pendingCancelRequest' = pendingCancelRequest
            /\ IF IdKey(raw) \in DOMAIN inflight
               THEN /\ \A i \in Requests \ {inflight[IdKey(raw)]} :
                          reqs'[i] = reqs[i]
                    /\ LET i == inflight[IdKey(raw)] IN
                          /\ reqs[i].key = IdKey(raw)
                          /\ reqs[i].line <= linesRead
                          /\ reqs'[i].cause # ""
                          /\ reqs'[i].pc = reqs[i].pc
               ELSE reqs' = reqs

\* every request read so far is registered: a worker that has not completed,
\* and whose key no other request has used, has its handle in c.inflight;
\* every entry is that of a request read on an earlier line that has not
\* completed
CancelOrderInv ==
    /\ \A i \in Requests :
          (/\ reqs[i].pc \notin {"unused", "done"}
           /\ \A h \in Requests \ {i} :
                 reqs[h].pc # "unused" => reqs[h].key # reqs[i].key)
          => (reqs[i].key \in DOMAIN inflight /\ inflight[reqs[i].key] = i)
    /\ \A idKey \in DOMAIN inflight :
          LET i == inflight[idKey] IN
             /\ reqs[i].pc \notin {"unused", "done"}
             /\ reqs[i].key = idKey
             /\ reqs[i].line <= linesRead

\* C33: an inbound $/cancel_request takes effect in reader order, after the
\* earlier lines have been registered and before any later line is read; it
\* cancels only the inflight entry with the named id, and for an unknown or
\* completed id it changes no state and produces no reply.
CancelOrder == [][CancelOrderStep]_vars /\ []CancelOrderInv

\* a $/cancel_request has cancelled the one of two running requests that
\* it names, and another has been read without effect
CancelOrderWitness ==
    /\ linesRead = 4
    /\ reqs[1].pc = "handler" /\ reqs[1].key = <<"1">>
    /\ reqs[1].cause = "context canceled" /\ reqs[1].invoked = 1
    /\ reqs[2].pc = "handler" /\ reqs[2].key = <<"\"", "a", "\"">>
    /\ reqs[2].cause = "" /\ reqs[2].invoked = 0

(***************************************************************************)
(* C34: the reader and the handlers.                                       *)
(***************************************************************************)
\* a handler is running or waiting, or a task is inside a Write that the
\* peer does not take
HandlersBlocked ==
    \/ \E i \in Requests : reqs[i].pc \in {"handler", "nested", "writing"}
    \/ \E j \in Notifications : ntfs[j].pc \in {"handler", "nested"}
    \/ writeMu # NoTask

\* C34: the reader is never starved by handlers: whatever handlers are
\* running or blocked and whatever replies are blocked on the writer, a
\* reader that has not seen the end of its input can read and dispatch the
\* next line, be it a response, a $/cancel_request, a request or a
\* notification.
ReaderNotStarved ==
    (readerPc = "scan" /\ HandlersBlocked) =>
        /\ \A raw \in ResponseIdTexts : ENABLED ReadResponse(raw, "result")
        /\ \A raw \in CancelIdTexts : ENABLED ReadCancelRequest(raw)
        /\ (\E i \in Requests : reqs[i].pc = "unused") =>
              \A raw \in RequestIdTexts : ENABLED ReadRequest(raw, LoadMethod, "ok")
        /\ (\E j \in Notifications : ntfs[j].pc = "unused") =>
              ENABLED ReadNotification(LoadMethod, "return")

\* a handler waits on its context and a reply is inside a Write the peer
\* does not take; the reader has since dispatched a notification and still
\* scans
ReaderNotStarvedWitness ==
    /\ readerPc = "scan"
    /\ \E i, h \in Requests :
          /\ reqs[i].pc = "handler" /\ reqs[i].script = "waitCtx"
          /\ reqs[h].pc = "writing" /\ writeMu = ReqTask(h)
    /\ ntfs[1].pc = "handler" /\ ntfs[1].line = 3

(***************************************************************************)
(* C35: no I/O under the state mutex.                                      *)
(***************************************************************************)
\* C35: in every reachable state, no task performs a write to the peer, a
\* handler call or a mailbox wait while holding the mutex that guards the
\* pending map, the inflight map and the cancel queue.
\*
\* the holder of c.mu is at an access to the guarded data or at its Unlock,
\* never at a write to the peer, a handler call, a mailbox operation or any
\* other operation that may block, and it does not hold or take c.writeMu;
\* the guarded data is accessed under c.mu only; the holder can always go
\* on, so c.mu is free again after two steps of its holder at most
NoIOUnderMutex ==
    /\ \A t \in Goroutines :
          /\ sections.mu = t =>
                /\ At(t).op \in {"data", "unlock"}
                /\ sections.writeMu # t
                /\ ENABLED (GuardedData(t) \/ MutexUnlock(t))
          /\ At(t).op = "data" => sections.mu = t
          /\ At(t).op = "unlock" => sections.mu = t
          /\ At(t).op \in {"write", "writeUnlock"} => sections.writeMu = t
    /\ sections.mu \in Goroutines \cup {"free"}


\* the emitter holds c.mu for its access to the cancel queue while a reply
\* is inside a Write under c.writeMu, the call waits at its mailbox and the
\* reader waits at the mutex
NoIOUnderMutexWitness ==
    /\ sections.mu = "sendCancelRequests"
    /\ At("sendCancelRequests").op = "data"
    /\ sections.writeMu = "worker" /\ At("worker").op = "write"
    /\ At("SendRequest").op = "wait"
    /\ At("receive").op = "lock"

(***************************************************************************)
(* C36: the write of an outbound request fails.                            *)
(***************************************************************************)
\* call k returned because its request line could not be written
WriteFailed(k) == calls[k].pc = "done" /\ calls[k].outcome = "write error"

\* the step in which the write of call k's line fails: the call returns
\* from sendMessage's error, never having been in waitForResponse; its own
\* entry goes and the other entries stay; nothing gets on the wire
WriteFailureStep ==
    \A k \in Calls :
        (calls[k].pc \in {"write", "writing"} /\ calls'[k].pc = "done") =>
            /\ WriteFailed(k)'
            /\ calls'[k].code = CodeInternalError
            /\ calls'[k].resp = NoMsg
            /\ pending' = MapDel(pending, DecimalText(k))
            /\ wire' = wire
            /\ pendingCancelRequest' = pendingCancelRequest

\* a call whose write failed has -32603, has taken no response, owns no
\* entry, and its line is not on the wire
WriteFailureInv ==
    \A k \in Calls :
        WriteFailed(k) =>
            /\ calls[k].code = -32603
            /\ calls[k].resp = NoMsg
            /\ DecimalText(k) \notin DOMAIN pending
            /\ \A idStr \in DOMAIN pending : pending[idStr] # k
            /\ BagCardinality(wire) =
                  BagCardinality(wire (-) SetToBag({WireLine("request", DecimalText(k), 0)}))

\* C36: if writing the request line fails, SendRequest returns an internal
\* error (-32603) without waiting for a response, and the pending entry it
\* had inserted is removed, the rest of the pending map being left alone.
WriteFailure == [][WriteFailureStep]_vars /\ []WriteFailureInv

\* the first call's write failed while the second call, written before,
\* keeps its entry
WriteFailureWitness ==
    /\ WriteFailed(1) /\ calls[1].code = -32603
    /\ calls[2].pc = "wait"
    /\ DOMAIN pending = {DecimalText(2)}

(***************************************************************************)
(* C37: a connection built without a handler.                              *)
(***************************************************************************)
\* without a handler, a step that changes the reply lines is the
\* sendMessage of a request worker and adds the method-not-found error
\* with the request's id as the peer wrote it; a step of a notification
\* worker writes nothing
NilHandlerStep ==
    handlerNil =>
        /\ Replies' # Replies =>
              \E i \in Requests :
                  /\ reqs[i].pc = "write"
                  /\ reqs'[i].pc = "deferred"
                  /\ wire' = wire (+) SetToBag({WireLine("reply", reqs[i].id, -32601)})
        /\ ntfs' # ntfs => wire' = wire

\* without a handler: every reply line is a method-not-found error with
\* the id of a request that was answered; a request is never handed to a
\* handler, is due -32601 once handleInbound has looked at it, and its
\* worker can always go on to the reply unless the writer is taken or the
\* peer has ceased to read; a notification completes without a handler
\* call, a log line or a reply; and a call that returned on the response
\* path holds a response whose id denotes its own
NilHandlerInv ==
    handlerNil =>
        /\ \A l \in DOMAIN Replies :
              /\ l.code = -32601
              /\ \E i \in Answered : reqs[i].id = l.id
        /\ BagCardinality(Replies) <= Cardinality(Answered)
        /\ \A i \in Requests :
              /\ reqs[i].to = ""
              /\ reqs[i].pc \in {"write", "writing", "deferred", "done"} =>
                    reqs[i].replyCode = -32601
              /\ reqs[i].pc = "handler" => ENABLED HandlerReturn(i)
              /\ (reqs[i].pc = "write" /\ writeMu = NoTask /\ peerRx = "reading")
                    => ENABLED ReplyWrites(i)
        /\ \A j \in Notifications :
              /\ ntfs[j].to = "" /\ ntfs[j].code = 0 /\ ~ntfs[j].logged
              /\ ntfs[j].pc = "handler" => ENABLED NotificationDone(j)
        /\ \A l \in DOMAIN wire : l.kind \in {"request", "reply", "cancel"}
        /\ \A k \in Calls :
              ReturnedOnResponsePath(k) =>
                  /\ IdKey(calls[k].resp.id) = DecimalText(k)
                  /\ calls[k].code = (IF calls[k].resp.payload = "error"
                                      THEN CodePeerError ELSE 0)

\* C37: a connection built with no handler answers every inbound request
\* with a method-not-found error (-32601) bearing the request's id, and
\* drops every inbound notification without reply; responses to its own
\* outbound requests are still correlated.
NilHandler == [][NilHandlerStep]_vars /\ []NilHandlerInv

\* without a handler, the request with id 1e0 was answered with -32601
\* under that id, a notification was dropped, and the call got the result
\* of the response written as 1e0
NilHandlerWitness ==
    /\ handlerNil
    /\ BagIn(WireLine("reply", <<"1", "e", "0">>, -32601), wire)
    /\ \E i \in Requests : reqs[i].pc = "done" /\ reqs[i].id = <<"1", "e", "0">>
    /\ ntfs[1].pc = "done"
    /\ calls[1].pc = "done" /\ calls[1].outcome = "result"
    /\ calls[1].resp.id = <<"1", "e", "0">>
    /\ BagCardinality(Replies) = 1

(***************************************************************************)
(* C38: cancelling a request whose id the peer has used before.            *)
(***************************************************************************)
\* the handler of request i is running with a live context; every other
\* request the peer sent with an id of the same key was read before it,
\* had been answered when it was read, and has completed
RunningAlone(i) ==
    /\ reqs[i].pc = "handler" /\ reqs[i].cause = ""
    /\ reqs[i].idFree
    /\ \A h \in Requests \ {i} :
          (reqs[h].pc # "unused" /\ reqs[h].key = reqs[i].key) =>
              reqs[h].pc = "done" /\ reqs[h].line < reqs[i].line

\* C38: for every inbound request whose handler is still running, a
\* $/cancel_request read afterwards that names an equivalent id cancels
\* that handler's context, also when the peer has sent two requests with
\* the same id and the handler of the other one has already completed: the
\* handle of the running request is the one c.inflight holds under the key.
CancelReachesHandler ==
    \A i \in Requests :
        RunningAlone(i) =>
            /\ reqs[i].key \in DOMAIN inflight
            /\ inflight[reqs[i].key] = i

(***************************************************************************)
(* C39: the end of the reader loop.                                        *)
(***************************************************************************)
\* the context of request handler i is cancelled
RequestCtxDone(i) == reqs[i].cause # ""

\* the context of a notification handler is c.ctx (connection.go:383)
NotificationCtxDone == closed

\* the step that ends the loop cancels c.ctx and with it the context of
\* every request that was read, keeping the cause of those cancelled
\* before; after the loop has ended no line is read, no worker is spawned
\* and no response is delivered
ReaderExitStep ==
    /\ (readerPc = "scan" /\ readerPc' = "exited") =>
          /\ closed'
          /\ \A i \in Requests :
                reqs[i].pc # "unused" =>
                    reqs'[i].cause = (IF reqs[i].cause = ""
                                      THEN "peer connection closed"
                                      ELSE reqs[i].cause)
    /\ readerPc = "exited" =>
          /\ readerPc' = "exited" /\ closed'
          /\ linesRead' = linesRead
          /\ Spawned(reqs)' = Spawned(reqs)
          /\ Spawned(ntfs)' = Spawned(ntfs)
          /\ \A k \in Calls : Received(k)' = Received(k)

\* once the loop has ended every request that was read has a cancelled
\* context and so has every notification handler, and a handler that waits
\* for its context can return
ReaderExitInv ==
    readerPc = "exited" =>
        /\ NotificationCtxDone
        /\ \A i \in Requests :
              /\ reqs[i].pc # "unused" => RequestCtxDone(i)
              /\ (reqs[i].pc = "handler" /\ reqs[i].script = "waitCtx") =>
                    ENABLED HandlerReturn(i)
        /\ \A k \in Calls :
              (calls[k].pc = "wait" /\ calls[k].owner # User) => CtxDone(k)

\* C39: when the reader loop exits, the context passed to every
\* still-running inbound request handler and notification handler becomes
\* cancelled, and no further inbound line is dispatched to a handler
\* afterwards.
ReaderExit == [][ReaderExitStep]_vars /\ []ReaderExitInv

\* the loop has ended while a request handler waits on its context and a
\* notification handler runs
ReaderExitWitness ==
    /\ readerPc = "exited" /\ linesRead = 2
    /\ \E i \in Requests :
          /\ reqs[i].pc = "handler" /\ reqs[i].script = "waitCtx"
          /\ reqs[i].cause = "peer connection closed"
    /\ \E j \in Notifications : ntfs[j].pc = "handler"

(***************************************************************************)
(* Requests with an id that cannot be canonicalized.                       *)
(***************************************************************************)
\* the text without white space: two texts without strings denote the same
\* JSON value when they agree on it
Unspaced(text) == SelectSeq(text, LAMBDA ch : ch \notin WhiteSpace)

\* the reader can take a request with the id raw: a worker is free
RawIdReadable == CanScan /\ \E i \in Requests : reqs[i].pc = "unused"

\* reading a request with the id raw hands it to a worker whose handle is
\* stored under the raw text, and the reader goes on scanning
RawIdDispatched(raw) ==
    /\ ReadRequest(raw, LoadMethod, "ok")
    /\ \E i \in Requests :
          /\ reqs[i].pc = "unused" /\ reqs'[i].pc = "handler"
          /\ reqs'[i].id = raw /\ reqs'[i].key = raw
          /\ raw \in DOMAIN inflight' /\ inflight'[raw] = i
    /\ readerPc' = "scan" /\ closed' = closed

RawIdInv ==
    \A raw \in UncanonicalIdTexts :
        /\ canonicalKeys[raw].err # ""
        /\ RawIdReadable => ENABLED RawIdDispatched(raw)

\* a request worker that writes its reply writes the id of the request as
\* the same JSON value; a request spawned with such an id is keyed by the
\* raw text and does not end the loop
RawIdStep ==
    \A i \in Requests :
        /\ (reqs[i].pc = "unused" /\ reqs'[i].pc # "unused"
               /\ reqs'[i].id \in UncanonicalIdTexts)
            => /\ reqs'[i].pc = "handler" /\ reqs'[i].key = reqs'[i].id
               /\ inflight' = MapPut(inflight, reqs'[i].id, i)
               /\ readerPc' = readerPc /\ closed' = closed
        /\ (reqs[i].pc \in {"write", "writing"} /\ reqs'[i].pc = "deferred"
               /\ wire' # wire /\ reqs[i].id \in UncanonicalIdTexts)
            => \E l \in BagToSet(wire') :
                  /\ wire' = wire (+) SetToBag({l})
                  /\ l.kind = "reply" /\ l.code = reqs[i].replyCode
                  /\ Unspaced(l.id) = Unspaced(reqs[i].id)
        /\ (reqs[i].pc = "handler" /\ reqs'[i].pc = "write" /\ ~handlerNil)
            => reqs'[i].to = "generated"

====
